---- MODULE Spec2Model ----
(***************************************************************************)
(* A model of uv-metrics: the reporter/reader contracts and their          *)
(* combinators (uv/reporter/base.py, uv/reader/base.py), the in-memory and *)
(* SQL stores, the process-wide active reporter (uv/reporter/state.py) and *)
(* the measurement schedulers (uv/manager, uv/experimental).               *)
(*                                                                         *)
(* Python values are modelled as follows.                                  *)
(*   str            a sequence of one-character strings                    *)
(*   MetricKey      a record [t, n, s]: t = "str" with text s, or          *)
(*                  t = "int" with number n                                *)
(*   dict           a sequence of [k, v] entries with distinct keys, in    *)
(*                  insertion order                                        *)
(*   an exception   the exc field of the evaluation state / of a result    *)
(***************************************************************************)
EXTENDS Integers, Sequences, FiniteSets, TLC

VARIABLES
  mem,        \* MemoryReporter._m of each memory reporter: str -> list
  params,     \* MemoryReporter._params of each memory reporter
  sql,        \* the rows of the metrics table, in insertion order
  calls,      \* the calls the user lambdas of LambdaReporters received in the last operation
  last,       \* the last operation: what was called, with which arguments
  prev,       \* mem and params as they were before the last operation
  ret,        \* what the last operation returned (or raised)
  active,     \* uv.reporter.state._active_reporter
  scopes,     \* the open active_reporter() generator frames, innermost last
  initial,    \* _active_reporter when the run began
  bare,       \* TRUE while the run has only entered scopes, left them normally, and reported
  pinned,     \* the last set_reporter call: its argument, and how many of the scopes
              \* that were open at the call are still open
  threads,    \* of each thread running a with active_reporter(...) block: where it
              \* is, the r it was given and the local old_reporter of its generator
  order,      \* the steps the threads have taken, oldest first
  mgr,        \* the measurement scheduler: which class, static_state, measurements,
              \* and the step its caller's loop has come to
  reports,    \* the report_all calls the bound reporter of the scheduler received
  hist,       \* the entries reported to the memory reporter since its last clear()
  subject,    \* the combinator the program built and reports through
  held,       \* the reader the program got from reader() and kept
  every,      \* the n the program handed to report_each_n
  stack,      \* the frames of the default report/report_all (read/read_all)
              \* methods the interpreter is in, outermost first
  sub,        \* the pub/sub subscription of mlflow_subscriber and the mlflow
              \* backend: messages not yet acknowledged, batches written, and
              \* the log of the handler's runs
  nops        \* operations performed so far

vars == <<mem, params, sql, calls, last, prev, ret, active, scopes, initial,
          bare, pinned, threads, order, mgr, reports, hist, subject, held, every, stack, sub, nops>>

----------------------------------------------------------------------------
(* Bounds of the model. *)

MaxDepth == 2        \* nested active_reporter scopes
MaxThreads == 2      \* threads that each run one with active_reporter(...) block
MaxReports == 2      \* top-level report calls in one run of the registry
MaxMemOps == 3       \* calls on the memory reporter in one run
MaxDict == 2         \* entries of a reported dict, keys of a read_all
MaxDefaultOps == 2   \* calls on the one-method reporters and readers in one run
MaxChain == 2        \* with_prefix / with_suffix wrappers around the memory reporter
MaxChainOps == 1     \* reports through the chain in one run
MaxFilterOps == 2    \* reports through the filter in one run
MaxFan == 3          \* reporters handed to one MultiReporter
MaxMultiOps == 2     \* reports through the MultiReporter in one run
MaxReaderOps == 2    \* reports that fill the stores the readers read
MaxInterval == 2     \* the largest interval of a measurement
MaxSteps == 3        \* steps of the loop that calls the scheduler: 0 .. MaxSteps - 1
MaxCloses == 2       \* close() calls in one run
MaxLabels == 2       \* labelled maps handed to by_prefix / by_suffix
RecursionLimit == 4  \* sys.getrecursionlimit(): frames the interpreter allows
MaxAbstractOps == 2  \* calls on an object that overrides neither method
MaxFailSteps == 2    \* steps of a loop whose measurements may raise
MaxParamOps == 2     \* report_param and report_params calls on a combinator
MaxMessages == 2     \* messages published to the topic
MaxDeliveries == 3   \* runs of the subscriber's handler
MaxEvery == 3        \* the largest n handed to report_each_n
MaxEachOps == 2      \* calls through the reporter report_each_n returned
MaxLiveOps == 3      \* calls on a memory reporter whose reader is held
MaxMapOps == 2       \* calls on a map_values / stepped reporter in one run
MaxKeyOps == 2       \* calls in one run of the int and str keys
MaxEmptyOps == 2     \* calls in one run of the empty attachments
MaxFailOps == 2      \* reports through a combinator over a reporter that raises

----------------------------------------------------------------------------
(* str, MetricKey *)

Digits == <<"0", "1", "2", "3", "4", "5", "6", "7", "8", "9">>

RECURSIVE NatToStr(_)
NatToStr(n) ==
  IF n < 10 THEN <<Digits[n + 1]>>
  ELSE NatToStr(n \div 10) \o <<Digits[(n % 10) + 1]>>

\* str(n) for a Python int
IntToStr(n) == IF n < 0 THEN <<"-">> \o NatToStr(-n) ELSE NatToStr(n)

StrKey(s) == [t |-> "str", n |-> 0, s |-> s]
IntKey(n) == [t |-> "int", n |-> n, s |-> <<>>]

\* str(k): the identity on a str, the decimal digits of an int
PyStr(k) == IF k.t = "str" THEN k.s ELSE IntToStr(k.n)

\* sep.join(parts)
RECURSIVE Join(_, _)
Join(sep, parts) ==
  IF parts = <<>> THEN <<>>
  ELSE IF Len(parts) = 1 THEN parts[1]
  ELSE parts[1] \o sep \o Join(sep, Tail(parts))

----------------------------------------------------------------------------
(* dict *)

DictKeys(d) == [i \in 1..Len(d) |-> d[i].k]

DictHas(d, k) == \E i \in 1..Len(d) : d[i].k = k

DictGet(d, k) == d[CHOOSE i \in 1..Len(d) : d[i].k = k].v

\* d[k] = v: a present key keeps its place and takes the new value
DictSet(d, k, v) ==
  IF DictHas(d, k)
  THEN [i \in 1..Len(d) |-> IF d[i].k = k THEN [k |-> k, v |-> v] ELSE d[i]]
  ELSE Append(d, [k |-> k, v |-> v])

DictUpdate_keep_old(d, e) ==
  d \o SelectSeq(e, LAMBDA x : ~DictHas(d, x.k))

\* {**d, **e}
RECURSIVE DictUpdate(_, _)
DictUpdate(d, e) ==
  IF e = <<>> THEN d
  ELSE DictUpdate(DictSet(d, e[1].k, e[1].v), Tail(e))

----------------------------------------------------------------------------
(* uv/util/__init__.py, uv/util/attachment.py *)

NoneAtt == [t |-> "none", s |-> <<>>, l |-> <<>>]
StrAtt(s) == [t |-> "str", s |-> s, l |-> <<>>]
ListAtt(l) == [t |-> "list", s |-> <<>>, l |-> l]

wrap(item) ==
  IF item.t = "none" THEN <<>>
  ELSE IF item.t = "list" THEN item.l
  ELSE <<item.s>>

attach_s(s, a, prefix) ==
  StrKey(Join(<<".">>, IF prefix THEN wrap(a) \o <<PyStr(s)>>
                       ELSE <<PyStr(s)>> \o wrap(a)))

attach_iter(xs, a, prefix) == [i \in 1..Len(xs) |-> attach_s(xs[i], a, prefix)]

\* {attach_s(k, a, prefix): v for k, v in m.items()}
RECURSIVE attach_from(_, _, _, _)
attach_from(acc, m, a, prefix) ==
  IF m = <<>> THEN acc
  ELSE attach_from(DictSet(acc, attach_s(m[1].k, a, prefix), m[1].v),
                   Tail(m), a, prefix)

attach(m, a, prefix) == attach_from(<<>>, m, a, prefix)

\* ChainMap.__getitem__: the value of the last mapping that has the key
RECURSIVE ChainMapGet_last(_, _)
ChainMapGet_last(maps, k) ==
  IF DictHas(maps[Len(maps)], k) THEN DictGet(maps[Len(maps)], k)
  ELSE ChainMapGet_last(SubSeq(maps, 1, Len(maps) - 1), k)

\* ChainMap.__getitem__: the mappings are searched from the first on, and
\* the value of the first one that has the key is returned
RECURSIVE ChainMapGet(_, _)
ChainMapGet(maps, k) ==
  IF DictHas(maps[1], k) THEN DictGet(maps[1], k)
  ELSE ChainMapGet(Tail(maps), k)

\* ChainMap.__iter__: d = {}; for mapping in reversed(maps):
\* d.update(dict.fromkeys(mapping)); iter(d)
RECURSIVE ChainMapKeys(_)
ChainMapKeys(maps) ==
  IF maps = <<>> THEN <<>>
  ELSE LET later == ChainMapKeys(Tail(maps))
       IN later \o SelectSeq(DictKeys(maps[1]),
                             LAMBDA k : \A i \in 1..Len(later) : later[i] # k)

\* dict(ChainMap(*(attach(m, a, prefix) for a, m in ms.items())))
by_attachment(ms, prefix) ==
  LET maps == [i \in 1..Len(ms) |-> attach(ms[i].v, StrAtt(PyStr(ms[i].k)), prefix)]
      keys == ChainMapKeys(maps)
  IN [i \in 1..Len(keys) |-> [k |-> keys[i], v |-> ChainMapGet(maps, keys[i])]]

by_prefix(ms) == by_attachment(ms, TRUE)

by_suffix(ms) == by_attachment(ms, FALSE)

----------------------------------------------------------------------------
(* uv/mlflow/utils.py: a nested dict is a dict whose values are leaves or   *)
(* dicts; a value is a record telling which.                                *)

Leaf(n) == [t |-> "leaf", n |-> n, d |-> <<>>]
Nested(d) == [t |-> "map", n |-> 0, d |-> d]

\* new_key = parent_key + sep + k if parent_key else k
new_key_always_sep(parent_key, sep, k) == parent_key \o sep \o k

new_key(parent_key, sep, k) ==
  IF parent_key # <<>> THEN parent_key \o sep \o k ELSE k

\* the list items at the end of the loop of flatten(d, parent_key, sep)
RECURSIVE flatten_items(_, _, _)
flatten_items(d, parent_key, sep) ==
  IF d = <<>> THEN <<>>
  ELSE LET key == new_key(parent_key, sep, PyStr(d[1].k))
           here == IF d[1].v.t = "map"
                   THEN DictUpdate(<<>>, flatten_items(d[1].v.d, key, sep))
                   ELSE <<[k |-> StrKey(key), v |-> d[1].v]>>
       IN here \o flatten_items(Tail(d), parent_key, sep)

\* flatten(d): dict(items), with the default parent_key '' and sep ':'
flatten(d) == DictUpdate(<<>>, flatten_items(d, <<>>, <<":">>))

----------------------------------------------------------------------------
(* Readers: uv/reader/base.py, uv/reader/store.py, uv/sql/reporter.py      *)
(*                                                                         *)
(* A reader object is a record; kids holds the reader it wraps. A read     *)
(* returns [exc, list, dict]: the exception raised ("none" if none), and   *)
(* the list (read) or the dict (read_all) returned.                        *)

NoReader == [kind |-> "none", id |-> "", kids |-> <<>>, att |-> NoneAtt,
             one |-> FALSE, all |-> FALSE]
EmptyReader == [NoReader EXCEPT !.kind = "empty"]
MemoryReader(id) == [NoReader EXCEPT !.kind = "memory", !.id = id]
SQLReader == [NoReader EXCEPT !.kind = "sql"]
PrefixedReader(base, a) ==
  [NoReader EXCEPT !.kind = "prefix", !.kids = <<base>>, !.att = a]
SuffixedReader(base, a) ==
  [NoReader EXCEPT !.kind = "suffix", !.kids = <<base>>, !.att = a]
\* the tests' readers that only override close
CountCloseReader(id) == [NoReader EXCEPT !.kind = "count_close", !.id = id]
ThrowCloseReader(id) == [NoReader EXCEPT !.kind = "throw_close", !.id = id]
\* a reader that overrides read (one) and/or read_all (all) by handing the
\* call to the same method of base: LambdaReader(read=base.read), JustRead
LambdaReader(base, one, all) ==
  [NoReader EXCEPT !.kind = "lambda", !.kids = <<base>>, !.one = one, !.all = all]

\* none: the call returned None
Returned(l, d) == [exc |-> "none", list |-> l, dict |-> d, none |-> FALSE]
Raised(e) == [exc |-> e, list |-> <<>>, dict |-> <<>>, none |-> FALSE]

\* self._m.get(str(k), [])
MemoryGet(store, k) == IF PyStr(k) \in DOMAIN store THEN store[PyStr(k)] ELSE <<>>

\* {str(k): self._m.get(str(k), []) for k in ks}
RECURSIVE MemoryReadAllFrom(_, _, _)
MemoryReadAllFrom(acc, store, ks) ==
  IF ks = <<>> THEN acc
  ELSE MemoryReadAllFrom(DictSet(acc, StrKey(PyStr(ks[1])), MemoryGet(store, ks[1])),
                         store, Tail(ks))

MemoryReadAll(store, ks) == MemoryReadAllFrom(<<>>, store, ks)

\* {k: [] for k in ks}
RECURSIVE EmptyReadAllFrom(_, _)
EmptyReadAllFrom(acc, ks) ==
  IF ks = <<>> THEN acc
  ELSE EmptyReadAllFrom(DictSet(acc, ks[1], <<>>), Tail(ks))

EmptyReadAll(ks) == EmptyReadAllFrom(<<>>, ks)

\* The order of str: code points, shorter first among a prefix and its extension
Alphabet == <<"-", ".", "0", "1", "2", "3", "4", "5", "6", "7", "8", "9",
              "a", "b", "p", "q">>
CharRank(c) == CHOOSE i \in 1..Len(Alphabet) : Alphabet[i] = c

RECURSIVE StrLess(_, _)
StrLess(x, y) ==
  IF y = <<>> THEN FALSE
  ELSE IF x = <<>> THEN TRUE
  ELSE IF x[1] = y[1] THEN StrLess(Tail(x), Tail(y))
  ELSE CharRank(x[1]) < CharRank(y[1])

\* ORDER BY tag, step (byTag) or ORDER BY step; rows that tie keep the order
\* in which they were inserted
RowBefore(x, y, byTag) ==
  IF byTag /\ x.tag # y.tag THEN StrLess(x.tag, y.tag) ELSE x.step < y.step

RECURSIVE InsertRow(_, _, _)
InsertRow(sorted, row, byTag) ==
  IF sorted = <<>> THEN <<row>>
  ELSE IF RowBefore(row, sorted[Len(sorted)], byTag)
       THEN Append(InsertRow(SubSeq(sorted, 1, Len(sorted) - 1), row, byTag),
                   sorted[Len(sorted)])
       ELSE Append(sorted, row)

RECURSIVE OrderRows(_, _)
OrderRows(rows, byTag) ==
  IF rows = <<>> THEN <<>>
  ELSE InsertRow(OrderRows(SubSeq(rows, 1, Len(rows) - 1), byTag),
                 rows[Len(rows)], byTag)

RECURSIVE FilterRows(_, _)
FilterRows(rows, tags) ==
  IF rows = <<>> THEN <<>>
  ELSE IF rows[1].tag \in tags THEN <<rows[1]>> \o FilterRows(Tail(rows), tags)
  ELSE FilterRows(Tail(rows), tags)

\* SQLReader._values
_values(group) == [i \in 1..Len(group) |-> [step |-> group[i].step, value |-> group[i].value]]

\* SQLReader.read: the rows of the tag, ordered by step
SQLRead(rows, k) == _values(OrderRows(FilterRows(rows, {PyStr(k)}), FALSE))

\* {k: self._values(group) for k, group in groupby(filtered, tag)}: one entry
\* for each run of rows with the same tag, so only for tags that have rows
RECURSIVE GroupByTag(_, _)
GroupByTag(acc, rows) ==
  IF rows = <<>> THEN acc
  ELSE LET tag == rows[1].tag
           n == CHOOSE j \in 1..Len(rows) :
                  /\ \A i \in 1..j : rows[i].tag = tag
                  /\ (j < Len(rows) => rows[j + 1].tag # tag)
       IN GroupByTag(DictSet(acc, StrKey(tag), _values(SubSeq(rows, 1, n))),
                     SubSeq(rows, n + 1, Len(rows)))

SQLReadAll(rows, ks) ==
  GroupByTag(<<>>, OrderRows(FilterRows(rows, {PyStr(ks[i]) : i \in 1..Len(ks)}), TRUE))

RECURSIVE Read(_, _, _, _), ReadAll(_, _, _, _), ReadEach(_, _, _, _, _)

\* AbstractReader.read_all: {k: self.read(k) for k in ks}
ReadEach(acc, rd, store, rows, ks) ==
  IF ks = <<>> THEN Returned(<<>>, acc)
  ELSE LET r == Read(rd, store, rows, ks[1])
       IN IF r.exc # "none" THEN r
          ELSE ReadEach(DictSet(acc, ks[1], r.list), rd, store, rows, Tail(ks))

AbstractReadAll_keyed_by_str(rd, store, rows, ks) ==
  ReadEach(<<>>, rd, store, rows, [i \in 1..Len(ks) |-> StrKey(PyStr(ks[i]))])

AbstractReadAll(rd, store, rows, ks) == ReadEach(<<>>, rd, store, rows, ks)

\* AbstractReader.read: self.read_all([k])[k]
AbstractRead_first_value(rd, store, rows, k) ==
  LET r == ReadAll(rd, store, rows, <<k>>)
  IN IF r.exc # "none" THEN r
     ELSE IF r.dict = <<>> THEN Raised("KeyError")
     ELSE Returned(r.dict[1].v, <<>>)

AbstractRead(rd, store, rows, k) ==
  LET r == ReadAll(rd, store, rows, <<k>>)
  IN IF r.exc # "none" THEN r
     ELSE IF DictHas(r.dict, k) THEN Returned(DictGet(r.dict, k), <<>>)
     ELSE Raised("KeyError")

\* reader.read(k); store maps each memory reporter to its _m
Read(rd, store, rows, k) ==
  CASE rd.kind = "none" -> Raised("AttributeError")
    [] rd.kind = "empty" -> Returned(<<>>, <<>>)
    [] rd.kind = "memory" -> Returned(MemoryGet(store[rd.id], k), <<>>)
    [] rd.kind = "sql" -> Returned(SQLRead(rows, k), <<>>)
    [] rd.kind = "prefix" -> Read(rd.kids[1], store, rows, attach_s(k, rd.att, TRUE))
    [] rd.kind = "suffix" -> Read(rd.kids[1], store, rows, attach_s(k, rd.att, FALSE))
    [] rd.kind = "lambda" ->
         IF rd.one THEN Read(rd.kids[1], store, rows, k)
         ELSE AbstractRead(rd, store, rows, k)

\* reader.read_all(ks)
ReadAll(rd, store, rows, ks) ==
  CASE rd.kind = "none" -> Raised("AttributeError")
    [] rd.kind = "empty" -> Returned(<<>>, EmptyReadAll(ks))
    [] rd.kind = "memory" -> Returned(<<>>, MemoryReadAll(store[rd.id], ks))
    [] rd.kind = "sql" -> Returned(<<>>, SQLReadAll(rows, ks))
    [] rd.kind = "prefix" ->
         ReadAll(rd.kids[1], store, rows, attach_iter(ks, rd.att, TRUE))
    [] rd.kind = "suffix" ->
         ReadAll(rd.kids[1], store, rows, attach_iter(ks, rd.att, FALSE))
    [] rd.kind = "lambda" ->
         IF rd.all THEN ReadAll(rd.kids[1], store, rows, ks)
         ELSE AbstractReadAll(rd, store, rows, ks)

----------------------------------------------------------------------------
(* Reporters: uv/reporter/base.py, uv/reporter/store.py                    *)
(*                                                                         *)
(* A reporter object is a record: kids holds the reporters it wraps, alt   *)
(* the on_false reporter of a filter (empty when None), fn the name of its *)
(* predicate or mapping. A memory reporter is named by id: two records     *)
(* with the same id are the same Python object.                            *)
(*                                                                         *)
(* A call runs on an evaluation state st:                                  *)
(*   mem, params   the dicts of the memory reporters                       *)
(*   rows          the metrics table                                       *)
(*   calls         the calls of user lambdas made so far                   *)
(*   oracle        the answers an impure predicate will give, in order     *)
(*   exc           the exception in flight ("none" while none)             *)

NullReporter == [kind |-> "null", id |-> "", kids |-> <<>>, alt |-> <<>>,
                 att |-> NoneAtt, fn |-> "", one |-> FALSE, all |-> FALSE]
MemoryReporter(id) == [NullReporter EXCEPT !.kind = "memory", !.id = id]
SQLReporter == [NullReporter EXCEPT !.kind = "sql"]
\* LambdaReporter(report=base.report, report_all=base.report_all): one says
\* report was supplied, all that report_all was; the calls the supplied
\* functions receive are recorded before they reach base
LambdaReporter(id, base, one, all) ==
  [NullReporter EXCEPT !.kind = "lambda", !.id = id, !.kids = <<base>>,
                       !.one = one, !.all = all]
PrefixedReporter(base, a) ==
  [NullReporter EXCEPT !.kind = "prefix", !.kids = <<base>>, !.att = a]
SuffixedReporter(base, a) ==
  [NullReporter EXCEPT !.kind = "suffix", !.kids = <<base>>, !.att = a]
MultiReporter(rs) == [NullReporter EXCEPT !.kind = "multi", !.kids = rs]
FilterValuesReporter(base, pred, on_false) ==
  [NullReporter EXCEPT !.kind = "filter", !.kids = <<base>>, !.fn = pred,
                       !.alt = on_false]
\* lambda step: step % n == 0 of report_each_n, named by its text
EachNPred(n) == "step % " \o ToString(n) \o " == 0"
\* filter_step(pred, on_false): the predicate of the filter ignores the value
filter_step(base, pred, on_false) == FilterValuesReporter(base, pred, on_false)
report_each_n_every_step(base, n) == base
\* report_each_n(n): n = max(1, n); a step filter if n > 1, else self
report_each_n(base, n) ==
  LET n1 == IF n > 1 THEN n ELSE 1
  IN IF n1 > 1 THEN filter_step(base, EachNPred(n1), <<>>) ELSE base
MapValuesReporter(base, fn) ==
  [NullReporter EXCEPT !.kind = "map", !.kids = <<base>>, !.fn = fn]
\* stepped_reporter(base, step_key): MapValuesReporter(base, _augment), where
\* the closure _augment keeps step_key (att), "step" when None was given
stepped_reporter(base, step_key) ==
  [MapValuesReporter(base, "_augment") EXCEPT
     !.att = IF step_key.t = "none" THEN StrAtt(<<"s", "t", "e", "p">>) ELSE step_key]
ThunkReporter(base) == [NullReporter EXCEPT !.kind = "thunk", !.kids = <<base>>]
\* the tests' reporters that only override close: one counts its calls, one
\* raises IOError
CountCloseReporter(id) == [NullReporter EXCEPT !.kind = "count_close", !.id = id]
ThrowCloseReporter(id) == [NullReporter EXCEPT !.kind = "throw_close", !.id = id]
\* LambdaReporter(report=explode, report_all=explode): every report raises
\* IOError
BrokenReporter(id) == [NullReporter EXCEPT !.kind = "broken", !.id = id]

\* The predicates handed to filter_step / filter_values. "flaky" is a
\* predicate that keeps state of its own: its answer to a call is the next
\* one of the oracle, whatever the arguments.
Predicates == {"step_even", "sum_even", "flaky"}

PredAnswer(pred, step, v, bit) ==
  CASE pred = "step_even" -> step % 2 = 0
    [] pred = "sum_even" -> (step + v) % 2 = 0
    [] pred = "flaky" -> bit
    [] OTHER -> step % (CHOOSE n \in 2..(MaxEvery + 1) : pred = EachNPred(n)) = 0

\* The functions handed to map_values
MapFn(fn, step, v) ==
  CASE fn = "square_if_even" -> IF step % 2 = 0 THEN v * v ELSE v
    [] fn = "succ" -> v + 1

\* _augment(step, v) of stepped_reporter: {step_key: step, "value": v}
_augment(step_key, step, v) ==
  DictSet(DictSet(<<>>, step_key, step), <<"v", "a", "l", "u", "e">>, v)

\* self._fn(step, v) of the MapValuesReporter r
MapValue(r, step, v) ==
  IF r.fn = "_augment" THEN _augment(r.att.s, step, v) ELSE MapFn(r.fn, step, v)

\* self._m.setdefault(str(k), []).append(v)
MemoryAppend_overwrite(store, k, v) ==
  IF PyStr(k) \in DOMAIN store
  THEN [store EXCEPT ![PyStr(k)] = <<v>>]
  ELSE store @@ (PyStr(k) :> <<v>>)

MemoryAppend(store, k, v) ==
  IF PyStr(k) \in DOMAIN store
  THEN [store EXCEPT ![PyStr(k)] = Append(@, v)]
  ELSE store @@ (PyStr(k) :> <<v>>)

\* MemoryReporter.report_all
RECURSIVE MemoryReportAll(_, _)
MemoryReportAll(store, m) ==
  IF m = <<>> THEN store
  ELSE MemoryReportAll(MemoryAppend(store, m[1].k, m[1].v), Tail(m))

\* SQLReporter.report_all: one row for each entry, added in one commit
SQLReportAll(rows, step, m) ==
  rows \o [i \in 1..Len(m) |-> [step |-> step, tag |-> PyStr(m[i].k), value |-> m[i].v]]

\* a function supplied to a LambdaReporter is called
Called(st, id, meth, step, m) ==
  [st EXCEPT !.calls = Append(@, [to |-> id, meth |-> meth, step |-> step, m |-> m])]

\* [v for v in m.values() if pred(step, v) == want], the i-th call taking
\* the i-th answer of bits
RECURSIVE FilterPass(_, _, _, _, _)
FilterPass(m, pred, step, bits, want) ==
  IF m = <<>> THEN <<>>
  ELSE (IF PredAnswer(pred, step, m[1].v, bits[1]) = want THEN <<m[1]>> ELSE <<>>)
       \o FilterPass(Tail(m), pred, step, Tail(bits), want)

RECURSIVE Report(_, _, _, _, _), ReportAll(_, _, _, _), ReportEach(_, _, _, _),
          AbstractReport(_, _, _, _, _), AbstractReportAll(_, _, _, _),
          MultiReport(_, _, _, _, _), MultiReportAll(_, _, _, _),
          MapAll(_, _, _), LambdaReport(_, _, _, _, _), LambdaReportAll(_, _, _, _)

\* an exception is raised in st
Raise(st, e) == [st EXCEPT !.exc = e]

\* LambdaReporter.report
LambdaReport(r, st, step, k, v) ==
  IF r.one
  THEN Report(r.kids[1], Called(st, r.id, "report", step, <<[k |-> k, v |-> v]>>),
              step, k, v)
  ELSE AbstractReport(r, st, step, k, v)

\* LambdaReporter.report_all
LambdaReportAll(r, st, step, m) ==
  IF r.all
  THEN ReportAll(r.kids[1], Called(st, r.id, "report_all", step, m), step, m)
  ELSE AbstractReportAll(r, st, step, m)

\* AbstractReporter.report_all: for k, v in m.items(): self.report(step, k, v)
ReportEach(r, st, step, m) ==
  IF m = <<>> \/ st.exc # "none" THEN st
  ELSE ReportEach(r, Report(r, st, step, m[1].k, m[1].v), step, Tail(m))

AbstractReportAll_backwards(r, st, step, m) ==
  ReportEach(r, st, step, [i \in 1..Len(m) |-> m[Len(m) + 1 - i]])

AbstractReportAll(r, st, step, m) == ReportEach(r, st, step, m)

\* AbstractReporter.report: self.report_all(step, {k: v})
AbstractReport(r, st, step, k, v) == ReportAll(r, st, step, <<[k |-> k, v |-> v]>>)

MultiReport_first_only(rs, st, step, k, v) ==
  IF rs = <<>> THEN st ELSE Report(rs[1], st, step, k, v)

\* MultiReporter.report: for r in self._reporters: r.report(step, k, v)
MultiReport(rs, st, step, k, v) ==
  IF rs = <<>> \/ st.exc # "none" THEN st
  ELSE MultiReport(Tail(rs), Report(rs[1], st, step, k, v), step, k, v)

MultiReportAll_swallowing(rs, st, step, m) ==
  IF rs = <<>> THEN st
  ELSE MultiReportAll(Tail(rs), [ReportAll(rs[1], st, step, m) EXCEPT !.exc = "none"],
                      step, m)

\* MultiReporter.report_all: for r in self._reporters: r.report_all(step, m)
MultiReportAll(rs, st, step, m) ==
  IF rs = <<>> \/ st.exc # "none" THEN st
  ELSE MultiReportAll(Tail(rs), ReportAll(rs[1], st, step, m), step, m)

\* {k: v for k, v in m.items()}: the function is not applied
MapAll_unmapped(r, step, m) == m

\* {k: self._fn(step, v) for k, v in m.items()}
MapAll(r, step, m) ==
  [i \in 1..Len(m) |-> [k |-> m[i].k, v |-> MapValue(r, step, m[i].v)]]

\* FilterValuesReporter.report
FilterReport(r, st, step, k, v) ==
  LET st1 == [st EXCEPT !.oracle = Tail(@)]
  IN IF PredAnswer(r.fn, step, v, st.oracle[1])
     THEN Report(r.kids[1], st1, step, k, v)
     ELSE IF r.alt # <<>> THEN Report(r.alt[1], st1, step, k, v)
     ELSE st1

\* FilterValuesReporter.report_all: the predicate is asked about every entry
\* to build good, and about every entry again to build bad
FilterReportAll(r, st, step, m) ==
  LET n == Len(m)
      good == FilterPass(m, r.fn, step, SubSeq(st.oracle, 1, n), TRUE)
      bad == FilterPass(m, r.fn, step, SubSeq(st.oracle, n + 1, 2 * n), FALSE)
      st1 == [st EXCEPT !.oracle = SubSeq(@, 2 * n + 1, Len(@))]
      st2 == IF good # <<>> THEN ReportAll(r.kids[1], st1, step, good) ELSE st1
  IN IF st2.exc # "none" THEN st2
     ELSE IF r.alt # <<>> /\ bad # <<>> THEN ReportAll(r.alt[1], st2, step, bad)
     ELSE st2

\* reporter.report(step, k, v)
Report(r, st, step, k, v) ==
  CASE r.kind = "null" -> st
    [] r.kind = "memory" -> AbstractReport(r, st, step, k, v)
    [] r.kind = "sql" -> AbstractReport(r, st, step, k, v)
    [] r.kind = "lambda" -> LambdaReport(r, st, step, k, v)
    [] r.kind = "prefix" -> Report(r.kids[1], st, step, attach_s(k, r.att, TRUE), v)
    [] r.kind = "suffix" -> Report(r.kids[1], st, step, attach_s(k, r.att, FALSE), v)
    [] r.kind = "multi" -> MultiReport(r.kids, st, step, k, v)
    [] r.kind = "filter" -> FilterReport(r, st, step, k, v)
    [] r.kind = "map" -> Report(r.kids[1], st, step, k, MapValue(r, step, v))
    [] r.kind = "thunk" -> Report(r.kids[1], st, step, k, v)
    [] r.kind = "broken" ->
         Raise(Called(st, r.id, "report", step, <<[k |-> k, v |-> v]>>), "IOError")

\* reporter.report_all(step, m)
ReportAll(r, st, step, m) ==
  CASE r.kind = "null" -> st
    [] r.kind = "memory" ->
         [st EXCEPT !.mem = [@ EXCEPT ![r.id] = MemoryReportAll(@, m)]]
    [] r.kind = "sql" -> [st EXCEPT !.rows = SQLReportAll(@, step, m)]
    [] r.kind = "lambda" -> LambdaReportAll(r, st, step, m)
    [] r.kind = "prefix" -> ReportAll(r.kids[1], st, step, attach(m, r.att, TRUE))
    [] r.kind = "suffix" -> ReportAll(r.kids[1], st, step, attach(m, r.att, FALSE))
    [] r.kind = "multi" -> MultiReportAll(r.kids, st, step, m)
    [] r.kind = "filter" -> FilterReportAll(r, st, step, m)
    [] r.kind = "map" -> ReportAll(r.kids[1], st, step, MapAll(r, step, m))
    [] r.kind = "thunk" -> ReportAll(r.kids[1], st, step, m)
    [] r.kind = "broken" -> Raise(Called(st, r.id, "report_all", step, m), "IOError")

\* reporter.reader()
RECURSIVE ReaderOf(_)
ReaderOf(r) ==
  CASE r.kind = "null" -> EmptyReader
    [] r.kind = "memory" -> MemoryReader(r.id)
    [] r.kind = "sql" -> SQLReader
    [] r.kind = "lambda" -> NoReader
    [] r.kind = "multi" -> NoReader
    [] r.kind = "prefix" -> PrefixedReader(ReaderOf(r.kids[1]), r.att)
    [] r.kind = "suffix" -> SuffixedReader(ReaderOf(r.kids[1]), r.att)
    [] r.kind = "filter" -> ReaderOf(r.kids[1])
    [] r.kind = "map" -> ReaderOf(r.kids[1])
    [] r.kind = "thunk" -> ReaderOf(r.kids[1])

\* reporter.report_param(k, v)
RECURSIVE ReportParam(_, _, _, _)
ReportParam_to_first(r, st, k, v) ==
  IF r.kind = "memory" THEN [st EXCEPT !.params = [@ EXCEPT ![r.id] = DictSet(@, k, v)]]
  ELSE IF r.kids # <<>> THEN ReportParam(r.kids[1], st, k, v)
  ELSE st
ReportParam(r, st, k, v) ==
  CASE r.kind = "memory" -> [st EXCEPT !.params = [@ EXCEPT ![r.id] = DictSet(@, k, v)]]
    [] r.kind \in {"prefix", "suffix", "filter", "map", "thunk"} ->
         ReportParam(r.kids[1], st, k, v)
    [] OTHER -> st

\* reporter.report_params(m)
RECURSIVE ReportParams(_, _, _)
ReportParams(r, st, m) ==
  CASE r.kind = "memory" -> [st EXCEPT !.params = [@ EXCEPT ![r.id] = DictUpdate(@, m)]]
    [] r.kind \in {"prefix", "suffix", "filter", "map", "thunk"} ->
         ReportParams(r.kids[1], st, m)
    [] OTHER -> st

RECURSIVE Close(_, _), MultiClose(_, _)

MultiClose_first_only(rs, st) == IF rs = <<>> THEN st ELSE Close(rs[1], st)

\* MultiReporter.close: for r in self._reporters: r.close()
MultiClose(rs, st) ==
  IF rs = <<>> \/ st.exc # "none" THEN st
  ELSE MultiClose(Tail(rs), Close(rs[1], st))

\* FilterValuesReporter.close
FilterClose(r, st) ==
  LET st1 == Close(r.kids[1], st)
  IN IF st1.exc # "none" THEN st1
     ELSE IF r.alt # <<>> THEN Close(r.alt[1], st1)
     ELSE st1

\* reporter.close()
Close(r, st) ==
  CASE r.kind = "count_close" -> Called(st, r.id, "close", 0, <<>>)
    [] r.kind = "throw_close" -> Raise(Called(st, r.id, "close", 0, <<>>), "IOError")
    [] r.kind \in {"prefix", "suffix", "map", "thunk"} -> Close(r.kids[1], st)
    [] r.kind = "filter" -> FilterClose(r, st)
    [] r.kind = "multi" -> MultiClose(r.kids, st)
    [] OTHER -> st

\* reader.close(): PrefixedReader and SuffixedReader pass it to their base;
\* the leaves are readers that only override close
RECURSIVE CloseReader(_, _)
CloseReader(rd, st) ==
  CASE rd.kind = "count_close" -> Called(st, rd.id, "close", 0, <<>>)
    [] rd.kind = "throw_close" -> Raise(Called(st, rd.id, "close", 0, <<>>), "IOError")
    [] rd.kind \in {"prefix", "suffix"} -> CloseReader(rd.kids[1], st)
    [] OTHER -> st

----------------------------------------------------------------------------
(* The state of the program, and the frame every operation shares *)

MemIds == {"m1", "m2", "m3"}

EmptyStore == [s \in {} |-> <<>>]

\* MemoryReporter.clear that gives the reporter a new dict (self._m = {})
\* instead of emptying the one it has
MemoryClear_rebinding(r, m) == [r |-> MemoryReporter("m2"), mem |-> [m EXCEPT !["m2"] = EmptyStore]]

\* MemoryReporter.clear: self._m.clear() empties the dict in place; r.id
\* names the dict object that is the reporter's _m
MemoryClear(r, m) == [r |-> r, mem |-> [m EXCEPT ![r.id] = EmptyStore]]

\* MemoryReporter.reader: MemoryReader(self._m), a reader of the same dict
\* object
MemoryReporterReader(r) == MemoryReader(r.id)

KeyA == StrKey(<<"a">>)
KeyB == StrKey(<<"b">>)
Key1 == IntKey(1)
KeyS1 == StrKey(<<"1">>)

\* the dicts of at most n entries with keys from K and values from V
DictsOf(K, V, n) ==
  UNION { { d \in [1..len -> [k : K, v : V]] :
              \A i, j \in 1..len : i < j => d[i].k # d[j].k } : len \in 0..n }

\* the dicts of at most MaxDict entries with keys from K, the i-th entry
\* holding the value i
NumberedDicts(K) ==
  {d \in DictsOf(K, 1..MaxDict, MaxDict) : \A i \in 1..Len(d) : d[i].v = i}

\* the evaluation state a call starts from; bits are the answers an impure
\* predicate will give during the call
StateNow(bits) == [mem |-> mem, params |-> params, rows |-> sql, calls |-> <<>>,
                   oracle |-> bits, exc |-> "none"]

NoOp == [op |-> "none", rep |-> NullReporter, rd |-> NoReader, step |-> 0,
         k |-> StrKey(<<>>), v |-> 0, m |-> <<>>, ks |-> <<>>,
         old |-> NullReporter, bits |-> <<>>, forced |-> FALSE, was |-> <<>>,
         att |-> NoneAtt, prefix |-> TRUE]

\* what an operation is compared with: the dicts of the memory reporters
\* before it ran
Before == [mem |-> mem, params |-> params]

NoRet == [exc |-> "none", list |-> <<>>, dict |-> <<>>, none |-> FALSE]

\* a call ran to st: its effects become the program's state
Commit(st, op) ==
  /\ mem' = st.mem
  /\ params' = st.params
  /\ sql' = st.rows
  /\ calls' = st.calls
  /\ ret' = IF st.exc = "none" THEN NoRet ELSE Raised(st.exc)
  /\ prev' = Before
  /\ last' = op
  /\ nops' = nops + 1

\* an operation that leaves the stores alone
Quiet(op) ==
  /\ last' = op
  /\ prev' = Before
  /\ UNCHANGED <<mem, params, sql, calls, ret, hist, nops>>

\* no message published, nothing written, the handler never ran
NoSubscription == [pending |-> {}, acked |-> {}, written |-> <<>>, log |-> <<>>, next |-> 1]

InitStores ==
  /\ mem = [id \in MemIds |-> EmptyStore]
  /\ params = [id \in MemIds |-> <<>>]
  /\ sql = <<>>
  /\ calls = <<>>
  /\ last = NoOp
  /\ prev = [mem |-> [id \in MemIds |-> EmptyStore], params |-> [id \in MemIds |-> <<>>]]
  /\ ret = NoRet
  /\ hist = <<>>
  /\ held = NoReader
  /\ every = 0
  /\ stack = <<>>
  /\ sub = NoSubscription
  /\ nops = 0

InitNoSubject == subject = NullReporter

\* _active_reporter = None
None == [NullReporter EXCEPT !.kind = "None"]

\* set_reporter has not been called
Unpinned ==
  [set |-> FALSE, r |-> None, base |-> 0, depth |-> 0, moved |-> FALSE, raised |-> FALSE]

\* no thread has begun its with block
InitThreadsIdle ==
  /\ threads = <<>>
  /\ order = <<>>

InitRegistryIdle ==
  /\ active = None
  /\ initial = None
  /\ scopes = <<>>
  /\ bare = TRUE
  /\ pinned = Unpinned
  /\ InitThreadsIdle

InitManagerIdle ==
  /\ mgr = [class |-> "none", static_state |-> <<>>, measurements |-> <<>>, step |-> 0]
  /\ reports = <<>>

threadVars == <<threads, order>>
registryVars == <<active, scopes, initial, bare, pinned, threadVars, subject, held, every, stack, sub>>
managerVars == <<mgr, reports>>

----------------------------------------------------------------------------
(* The active reporter: uv/reporter/state.py *)

\* the reporters a program installs
Installable == {MemoryReporter("m1"), MemoryReporter("m2")}

get_reporter == IF active # None THEN active ELSE NullReporter

\* set_reporter(r)
SetReporter(r) ==
  /\ active' = r
  /\ bare' = FALSE
  /\ pinned' = [set |-> TRUE, r |-> r, base |-> Len(scopes), depth |-> Len(scopes),
                moved |-> FALSE, raised |-> FALSE]
  /\ Quiet([NoOp EXCEPT !.op = "set_reporter", !.rep = r])
  /\ UNCHANGED <<scopes, initial, threadVars, subject, held, every, stack, sub, managerVars>>

\* with active_reporter(r): the generator runs to its yield
EnterScope(r) ==
  /\ Len(scopes) < MaxDepth
  /\ scopes' = Append(scopes, [r |-> r, old_reporter |-> active])
  /\ active' = r
  /\ Quiet([NoOp EXCEPT !.op = "enter", !.rep = r, !.old = active])
  /\ pinned' = [pinned EXCEPT !.moved = pinned.set]
  /\ UNCHANGED <<initial, bare, threadVars, subject, held, every, stack, sub, managerVars>>

\* the last set_reporter call once the innermost scope has been left: how
\* many of the scopes that were open at the call remain, that a scope has
\* been entered or left since, and whether one has been left by an exception
Unwound(raising) ==
  [pinned EXCEPT !.depth = IF Len(scopes) - 1 < @ THEN Len(scopes) - 1 ELSE @,
                 !.moved = pinned.set,
                 !.raised = @ \/ (pinned.set /\ raising)]

\* what the generator assigns to _active_reporter when it is resumed after
\* its yield
restored_forgotten(frame) == active

restored(frame) == frame.old_reporter

\* the body of the innermost with block ends normally: the generator is
\* resumed and runs its last line
ExitScope ==
  /\ scopes # <<>>
  /\ active' = restored(scopes[Len(scopes)])
  /\ scopes' = SubSeq(scopes, 1, Len(scopes) - 1)
  /\ Quiet([NoOp EXCEPT !.op = "exit", !.rep = scopes[Len(scopes)].r,
                        !.old = scopes[Len(scopes)].old_reporter])
  /\ pinned' = Unwound(FALSE)
  /\ UNCHANGED <<initial, bare, threadVars, subject, held, every, stack, sub, managerVars>>

\* the body of the innermost with block raises: the exception is thrown
\* into the generator at its yield, which no try statement encloses, so the
\* generator ends there and the exception leaves the with statement
ExitScopeRaising ==
  /\ scopes # <<>>
  /\ scopes' = SubSeq(scopes, 1, Len(scopes) - 1)
  /\ bare' = FALSE
  /\ Quiet([NoOp EXCEPT !.op = "exit_raising", !.rep = scopes[Len(scopes)].r,
                        !.old = scopes[Len(scopes)].old_reporter])
  /\ pinned' = Unwound(TRUE)
  /\ UNCHANGED <<active, initial, threadVars, subject, held, every, stack, sub, managerVars>>

\* uv.reporter.state.report(step, k, v)
TopReport(step, k, v) ==
  /\ nops < MaxReports
  /\ Commit(Report(get_reporter, StateNow(<<>>), step, k, v),
            [NoOp EXCEPT !.op = "report", !.rep = get_reporter, !.step = step,
                         !.k = k, !.v = v])
  /\ UNCHANGED <<hist, registryVars, managerVars>>

\* uv.reporter.state.report_all(step, m)
TopReportAll(step, m) ==
  /\ nops < MaxReports
  /\ Commit(ReportAll(get_reporter, StateNow(<<>>), step, m),
            [NoOp EXCEPT !.op = "report_all", !.rep = get_reporter, !.step = step,
                         !.m = m])
  /\ UNCHANGED <<hist, registryVars, managerVars>>

\* uv.reporter.state.report_param(k, v)
TopReportParam(k, v) ==
  /\ nops < MaxReports
  /\ Commit(ReportParam(get_reporter, StateNow(<<>>), k, v),
            [NoOp EXCEPT !.op = "report_param", !.rep = get_reporter, !.k = k, !.v = v])
  /\ UNCHANGED <<hist, registryVars, managerVars>>

\* uv.reporter.state.report_params(m)
TopReportParams(m) ==
  /\ nops < MaxReports
  /\ Commit(ReportParams(get_reporter, StateNow(<<>>), m),
            [NoOp EXCEPT !.op = "report_params", !.rep = get_reporter, !.m = m])
  /\ UNCHANGED <<hist, registryVars, managerVars>>

InitRegistry ==
  /\ InitStores
  /\ InitNoSubject
  /\ InitManagerIdle
  /\ active \in Installable \cup {None}
  /\ initial = active
  /\ scopes = <<>>
  /\ bare = TRUE
  /\ pinned = Unpinned
  /\ InitThreadsIdle

NextRegistry ==
  \/ \E r \in Installable : EnterScope(r)
  \/ ExitScope
  \/ ExitScopeRaising
  \/ TopReport(1, KeyA, 2)
  \/ TopReportAll(2, <<[k |-> KeyA, v |-> 2], [k |-> KeyB, v |-> 3]>>)
  \/ TopReportParam(KeyA, 1)
  \/ TopReportParams(<<[k |-> KeyA, v |-> 2], [k |-> KeyB, v |-> 3]>>)

SpecRegistry == InitRegistry /\ [][NextRegistry]_vars

TopOps == {"report", "report_all", "report_param", "report_params"}

\* the reporter of the innermost open scope, or the one the run began with
Innermost == IF scopes = <<>> THEN initial ELSE scopes[Len(scopes)].r

\* C1: when the body of a with active_reporter(r) block raises, the active
\* reporter is afterwards the one that was active just before the block was
\* entered, and not r.
C1_RestoredAfterException == last.op = "exit_raising" => active = last.old

\* C2: in a run that only enters scopes, leaves them normally and reports,
\* the active reporter is the reporter of the innermost open scope (the one
\* the run began with when none is open), so that leaving a scope brings
\* back the reporter that was active when it was entered; a top-level
\* report, report_all, report_param or report_params reaches that reporter
\* and no other; and with nothing set and no scope open get_reporter() is a
\* NullReporter and a top-level report changes no store.
C2_ScopedDelivery ==
  bare =>
    /\ active = Innermost
    /\ \A i \in 1..Len(scopes) :
         scopes[i].old_reporter = IF i = 1 THEN initial ELSE scopes[i - 1].r
    /\ last.op = "exit" => active = last.old
    /\ last.op \in TopOps =>
         /\ last.rep = IF Innermost = None THEN NullReporter ELSE Innermost
         /\ \A id \in MemIds :
              (Innermost = None \/ id # Innermost.id) =>
                 mem[id] = prev.mem[id] /\ params[id] = prev.params[id]
         /\ Innermost # None =>
              /\ last.op = "report" =>
                   mem[Innermost.id] = MemoryAppend(prev.mem[Innermost.id], last.k, last.v)
              /\ last.op = "report_all" =>
                   mem[Innermost.id] = MemoryReportAll(prev.mem[Innermost.id], last.m)
              /\ last.op = "report_param" =>
                   params[Innermost.id] = DictSet(prev.params[Innermost.id], last.k, last.v)
              /\ last.op = "report_params" =>
                   params[Innermost.id] = DictUpdate(prev.params[Innermost.id], last.m)
    /\ (initial = None /\ scopes = <<>>) =>
         /\ get_reporter = NullReporter
         /\ last.op \in TopOps => mem = prev.mem /\ params = prev.params

\* C2's case: two scopes were nested, a report went to the inner reporter,
\* the inner scope was left, and a report has just gone to the outer one
C2_Witness ==
  /\ bare
  /\ initial = None
  /\ Len(scopes) = 1
  /\ scopes[1].r = MemoryReporter("m1")
  /\ last.op = "report"
  /\ mem["m1"] # EmptyStore
  /\ mem["m2"] # EmptyStore

\* a program that also calls set_reporter, inside and outside scopes
NextSet ==
  \/ \E r \in Installable : SetReporter(r)
  \/ \E r \in Installable : EnterScope(r)
  \/ ExitScope
  \/ ExitScopeRaising
  \/ TopReport(1, KeyA, 2)

SpecSet == InitRegistry /\ [][NextSet]_vars

\* set_reporter(r) was called, no scope has been left by an exception since,
\* and every scope entered after the call has been left
SettledAfterSet ==
  /\ pinned.set
  /\ ~pinned.raised
  /\ Len(scopes) = pinned.depth

----------------------------------------------------------------------------
(* Threads sharing uv.reporter.state._active_reporter. Every thread runs one
   with active_reporter(r) block; the interpreter switches threads between
   the statements of the generator, which takes no lock. *)

Threads == 1..MaxThreads

\* the generator frame of a thread that has not called active_reporter yet
NotStarted == [pc |-> "start", r |-> None, old_reporter |-> None]

\* thread t calls active_reporter(r) and saves the reporter the program
\* began with instead of the one that is active now
ThreadSave_stale(t, r) ==
  /\ threads[t].pc = "start"
  /\ threads' = [threads EXCEPT ![t] = [pc |-> "saved", r |-> r, old_reporter |-> initial]]
  /\ order' = Append(order, [t |-> t, ev |-> "save", r |-> r, old |-> initial])
  /\ Quiet([NoOp EXCEPT !.op = "save", !.rep = r, !.old = initial])
  /\ UNCHANGED <<active, scopes, initial, bare, pinned, subject, held, every, stack, sub, managerVars>>

\* thread t calls active_reporter(r): old_reporter = _active_reporter
ThreadSave(t, r) ==
  /\ threads[t].pc = "start"
  /\ threads' = [threads EXCEPT ![t] = [pc |-> "saved", r |-> r, old_reporter |-> active]]
  /\ order' = Append(order, [t |-> t, ev |-> "save", r |-> r, old |-> active])
  /\ Quiet([NoOp EXCEPT !.op = "save", !.rep = r, !.old = active])
  /\ UNCHANGED <<active, scopes, initial, bare, pinned, subject, held, every, stack, sub, managerVars>>

\* thread t: globals()['_active_reporter'] = r, and the yield: the body of
\* the with block begins
ThreadInstall(t) ==
  /\ threads[t].pc = "saved"
  /\ active' = threads[t].r
  /\ threads' = [threads EXCEPT ![t].pc = "body"]
  /\ order' = Append(order, [t |-> t, ev |-> "install", r |-> threads[t].r,
                              old |-> threads[t].old_reporter])
  /\ Quiet([NoOp EXCEPT !.op = "enter", !.rep = threads[t].r,
                        !.old = threads[t].old_reporter])
  /\ UNCHANGED <<scopes, initial, bare, pinned, subject, held, every, stack, sub, managerVars>>

\* the body of thread t's with block ends normally: the generator is resumed
\* and runs its last line
ThreadExit(t) ==
  /\ threads[t].pc = "body"
  /\ active' = restored([r |-> threads[t].r, old_reporter |-> threads[t].old_reporter])
  /\ threads' = [threads EXCEPT ![t].pc = "done"]
  /\ order' = Append(order, [t |-> t, ev |-> "exit", r |-> threads[t].r,
                              old |-> threads[t].old_reporter])
  /\ Quiet([NoOp EXCEPT !.op = "exit", !.rep = threads[t].r,
                        !.old = threads[t].old_reporter])
  /\ UNCHANGED <<scopes, initial, bare, pinned, subject, held, every, stack, sub, managerVars>>

InitThreads ==
  /\ InitStores
  /\ InitNoSubject
  /\ InitManagerIdle
  /\ active \in Installable \cup {None}
  /\ initial = active
  /\ scopes = <<>>
  /\ bare = TRUE
  /\ pinned = Unpinned
  /\ threads = [t \in Threads |-> NotStarted]
  /\ order = <<>>

NextThreads ==
  \/ \E t \in Threads, r \in Installable : ThreadSave(t, r)
  \/ \E t \in Threads : ThreadInstall(t)
  \/ \E t \in Threads : ThreadExit(t)

SpecThreads == InitThreads /\ [][NextThreads]_vars

\* the last n steps the threads took
LastSteps(n) == SubSeq(order, Len(order) - n + 1, Len(order))

\* thread a entered its scope, then thread b entered its own, then a left,
\* then b left, and nothing else has happened since a began
Crossed(a, b) ==
  /\ a # b
  /\ Len(order) >= 6
  /\ [i \in 1..6 |-> <<LastSteps(6)[i].t, LastSteps(6)[i].ev>>] =
       <<<<a, "save">>, <<a, "install">>, <<b, "save">>, <<b, "install">>,
         <<a, "exit">>, <<b, "exit">>>>

\* C18: the registry is not safe under concurrent scope entry and exit:
\* when thread A enters its scope with reporter r, thread B enters its own,
\* A exits and then B exits, both scopes have exited and the active reporter
\* is A's r, which B saved at its entry, and not the reporter that was
\* active before either scope was entered (unless the two are the same).
C18_CrossedExitLeaks ==
  \A a, b \in Threads :
    Crossed(a, b) =>
      /\ threads[a].pc = "done" /\ threads[b].pc = "done"
      /\ threads[b].old_reporter = threads[a].r
      /\ active = threads[a].r
      /\ threads[a].r # threads[a].old_reporter => active # threads[a].old_reporter

\* C18's case: with nothing active, thread 1 entered with m1, thread 2 with
\* m2, 1 left, 2 left: both scopes have exited and m1 is still active
C18_Witness ==
  /\ Crossed(1, 2)
  /\ initial = None
  /\ threads[1].r = MemoryReporter("m1")
  /\ threads[2].r = MemoryReporter("m2")
  /\ \A t \in Threads : threads[t].pc = "done"
  /\ active = MemoryReporter("m1")
  /\ active # initial

----------------------------------------------------------------------------
(* Calls on a reporter and on a reader *)

\* r.report(step, k, v)
CallReport(r, step, k, v, bits) ==
  /\ Commit(Report(r, StateNow(bits), step, k, v),
            [NoOp EXCEPT !.op = "report", !.rep = r, !.step = step, !.k = k,
                         !.v = v, !.bits = bits])
  /\ UNCHANGED <<registryVars, managerVars>>

\* r.report_all(step, m)
CallReportAll(r, step, m, bits) ==
  /\ Commit(ReportAll(r, StateNow(bits), step, m),
            [NoOp EXCEPT !.op = "report_all", !.rep = r, !.step = step, !.m = m,
                         !.bits = bits])
  /\ UNCHANGED <<registryVars, managerVars>>

\* MemoryReporter.clear
CallClear(r) ==
  /\ Commit([StateNow(<<>>) EXCEPT !.mem = [@ EXCEPT ![r.id] = EmptyStore]],
            [NoOp EXCEPT !.op = "clear", !.rep = r])
  /\ UNCHANGED <<registryVars, managerVars>>

\* rd.read(k)
CallRead(rd, k) ==
  /\ ret' = Read(rd, mem, sql, k)
  /\ last' = [NoOp EXCEPT !.op = "read", !.rd = rd, !.k = k]
  /\ prev' = Before
  /\ UNCHANGED <<mem, params, sql, calls, hist, registryVars, managerVars>>

\* rd.read_all(ks)
CallReadAll(rd, ks) ==
  /\ ret' = ReadAll(rd, mem, sql, ks)
  /\ last' = [NoOp EXCEPT !.op = "read_all", !.rd = rd, !.ks = ks]
  /\ prev' = Before
  /\ UNCHANGED <<mem, params, sql, calls, hist, registryVars, managerVars>>

----------------------------------------------------------------------------
(* The memory reporter on its own *)

Mem1 == MemoryReporter("m1")

\* the entries of m as history records of step
Entries(step, m) == [i \in 1..Len(m) |-> [step |-> step, k |-> m[i].k, v |-> m[i].v]]

MemReport ==
  \E step \in {0, 1}, k \in {KeyA, Key1, KeyS1}, v \in {1, 2} :
    /\ nops < MaxMemOps
    /\ CallReport(Mem1, step, k, v, <<>>)
    /\ hist' = Append(hist, [step |-> step, k |-> k, v |-> v])

MemReportAll ==
  \E m \in NumberedDicts({KeyA, Key1, KeyS1}) :
    /\ nops < MaxMemOps
    /\ CallReportAll(Mem1, 0, m, <<>>)
    /\ hist' = hist \o Entries(0, m)

MemClear ==
  /\ nops < MaxMemOps
  /\ CallClear(Mem1)
  /\ hist' = <<>>

InitMemory == InitStores /\ InitNoSubject /\ InitRegistryIdle /\ InitManagerIdle

NextMemory == MemReport \/ MemReportAll \/ MemClear

SpecMemory == InitMemory /\ [][NextMemory]_vars

\* the values of the entries of h whose key has the string form s, in order
RECURSIVE ValuesFor(_, _)
ValuesFor(h, s) ==
  IF h = <<>> THEN <<>>
  ELSE (IF PyStr(h[1].k) = s THEN <<h[1].v>> ELSE <<>>) \o ValuesFor(Tail(h), s)

\* C8: in a MemoryReporter, the list stored for a stringified key is the
\* sequence of the values reported for that key since the last clear(), in
\* call order (so every report appends one element, none is changed or
\* removed, and two reports of a key at the same step are both kept); a key
\* never reported has no list.
C8_MemoryAppendOnly ==
  /\ DOMAIN mem["m1"] = {PyStr(hist[i].k) : i \in 1..Len(hist)}
  /\ \A s \in DOMAIN mem["m1"] : mem["m1"][s] = ValuesFor(hist, s)

\* C8's case: the same stringified key was reported twice at the same step,
\* once as the int 1 and once as the str "1", with different values, after
\* another report
C8_Witness ==
  /\ Len(hist) = 3
  /\ \E i, j \in 1..3 :
       /\ i < j
       /\ hist[i].step = hist[j].step
       /\ hist[i].k = Key1 /\ hist[j].k = KeyS1
       /\ hist[i].v # hist[j].v
  /\ last.op = "report"

----------------------------------------------------------------------------
(* Reporters and readers that override one of their two methods *)

\* LambdaReporter(report=mem.report) and LambdaReporter(report_all=mem.report_all)
OnlyReport == LambdaReporter("l1", Mem1, TRUE, FALSE)
OnlyReportAll == LambdaReporter("l2", Mem1, FALSE, TRUE)
\* JustRead(mem.reader()) and JustReadAll(mem.reader())
OnlyRead == LambdaReader(MemoryReader("m1"), TRUE, FALSE)
OnlyReadAll == LambdaReader(MemoryReader("m1"), FALSE, TRUE)

\* the lists of at most n keys from K
KeyLists(K, n) == UNION {[1..len -> K] : len \in 0..n}

DefaultReport ==
  \E r \in {OnlyReport, OnlyReportAll}, step \in {1, 2}, k \in {KeyA, Key1}, v \in {1, 2} :
    /\ nops < MaxDefaultOps
    /\ CallReport(r, step, k, v, <<>>)
    /\ UNCHANGED hist

DefaultReportAll ==
  \E r \in {OnlyReport, OnlyReportAll}, m \in NumberedDicts({KeyA, Key1}) :
    /\ nops < MaxDefaultOps
    /\ CallReportAll(r, 3, m, <<>>)
    /\ UNCHANGED hist

DefaultRead ==
  \E rd \in {OnlyRead, OnlyReadAll}, k \in {KeyA, Key1} :
    /\ nops < MaxDefaultOps
    /\ nops' = nops + 1
    /\ CallRead(rd, k)

DefaultReadAll ==
  \E rd \in {OnlyRead, OnlyReadAll}, ks \in KeyLists({KeyA, Key1}, MaxDict) :
    /\ nops < MaxDefaultOps
    /\ nops' = nops + 1
    /\ CallReadAll(rd, ks)

InitDefaults == InitStores /\ InitNoSubject /\ InitRegistryIdle /\ InitManagerIdle

NextDefaults == DefaultReport \/ DefaultReportAll \/ DefaultRead \/ DefaultReadAll

SpecDefaults == InitDefaults /\ [][NextDefaults]_vars

\* the store before the last operation with the values of the entries h
\* appended to the lists of their stringified keys
Appended(store, h) ==
  [s \in DOMAIN store \cup {PyStr(h[i].k) : i \in 1..Len(h)} |->
     (IF s \in DOMAIN store THEN store[s] ELSE <<>>) \o ValuesFor(h, s)]

\* ks without the later occurrences of a key
RECURSIVE Firsts(_)
Firsts(ks) ==
  IF ks = <<>> THEN <<>>
  ELSE LET front == Firsts(SubSeq(ks, 1, Len(ks) - 1))
           k == ks[Len(ks)]
       IN IF \E i \in 1..Len(front) : front[i] = k THEN front ELSE Append(front, k)

\* C3: on a reporter that overrides only report, report_all(step, m) calls
\* report(step, k, v) once for each entry of m, in m's order, and leaves the
\* store as those calls do; on one that overrides only report_all,
\* report(step, k, v) calls report_all(step, {k: v}) once. On a reader that
\* overrides only read, read_all(ks) is {k: read(k) for k in ks}; on one that
\* overrides only read_all, read(k) is read_all([k])[k] (a KeyError when the
\* dict read_all returns has no entry k).
C3_MutualDefault ==
  /\ (last.op = "report_all" /\ last.rep = OnlyReport) =>
       /\ calls = [i \in 1..Len(last.m) |->
                     [to |-> "l1", meth |-> "report", step |-> last.step,
                      m |-> <<last.m[i]>>]]
       /\ mem["m1"] = Appended(prev.mem["m1"], last.m)
  /\ (last.op = "report" /\ last.rep = OnlyReportAll) =>
       /\ calls = <<[to |-> "l2", meth |-> "report_all", step |-> last.step,
                     m |-> <<[k |-> last.k, v |-> last.v]>>]>>
       /\ mem["m1"] = Appended(prev.mem["m1"], <<[k |-> last.k, v |-> last.v]>>)
  /\ (last.op = "read_all" /\ last.rd = OnlyRead) =>
       /\ ret.exc = "none"
       /\ DictKeys(ret.dict) = Firsts(last.ks)
       /\ \A i \in 1..Len(ret.dict) :
            ret.dict[i].v = Read(OnlyRead, mem, sql, ret.dict[i].k).list
  /\ (last.op = "read" /\ last.rd = OnlyReadAll) =>
       LET all == ReadAll(OnlyReadAll, mem, sql, <<last.k>>)
       IN IF DictHas(all.dict, last.k)
          THEN ret = Returned(DictGet(all.dict, last.k), <<>>)
          ELSE ret = Raised("KeyError")

\* C3's cases: a report_all of two entries through the reporter that has only
\* report, after an earlier report; and a read_all of two keys through the
\* reader that has only read, finding data
C3_WitnessReporter ==
  /\ last.op = "report_all" /\ last.rep = OnlyReport /\ Len(last.m) = 2
  /\ prev.mem["m1"] # EmptyStore

C3_WitnessReader ==
  /\ last.op = "read_all" /\ last.rd = OnlyRead /\ Len(ret.dict) = 2
  /\ \E i \in 1..2 : ret.dict[i].v # <<>>

\* C3's case, both halves in one run: two entries went through report_all
\* of the reporter that has only report, and read_all of the reader that has
\* only read has just returned them
C3_Witness ==
  /\ last.op = "read_all" /\ last.rd = OnlyRead /\ Len(ret.dict) = 2
  /\ \A i \in 1..2 : ret.dict[i].v # <<>>
  /\ Len(calls) = 2 /\ calls[1].meth = "report"

----------------------------------------------------------------------------
(* Chains of with_prefix / with_suffix around a memory reporter *)

Attachments == {NoneAtt, StrAtt(<<"p">>), ListAtt(<<<<"p">>, <<"q">>>>)}

\* mem.with_prefix(a) or mem.with_suffix(a), for every a
Wrapped(base) ==
  {PrefixedReporter(base, a) : a \in Attachments}
    \cup {SuffixedReporter(base, a) : a \in Attachments}

\* the reporters made of exactly n wrappers around the memory reporter
RECURSIVE ChainsOfDepth(_)
ChainsOfDepth(n) ==
  IF n = 0 THEN {Mem1} ELSE UNION {Wrapped(b) : b \in ChainsOfDepth(n - 1)}

Chains == UNION {ChainsOfDepth(n) : n \in 1..MaxChain}

ChainKeys == {KeyA, Key1, KeyS1}

ChainReport ==
  \E k \in ChainKeys :
    /\ nops < MaxChainOps
    /\ CallReport(subject, 0, k, 7, <<>>)
    /\ UNCHANGED hist

ChainReportAll ==
  \E m \in NumberedDicts(ChainKeys) :
    /\ nops < MaxChainOps
    /\ CallReportAll(subject, 1, m, <<>>)
    /\ UNCHANGED hist

\* subject.reader().read(k), right after a report
ChainRead ==
  \E k \in ChainKeys :
    /\ last.op \in {"report", "report_all"}
    /\ CallRead(ReaderOf(subject), k)
    /\ UNCHANGED nops

InitChain ==
  /\ InitStores /\ InitRegistryIdle /\ InitManagerIdle
  /\ subject \in Chains

NextChain == ChainReport \/ ChainReportAll \/ ChainRead

SpecChain == InitChain /\ [][NextChain]_vars

\* the key under which the memory reporter at the bottom of chain r stores
\* what is reported under k: every wrapper's attachment, outermost first
RECURSIVE AttachedKey(_, _)
AttachedKey(r, k) ==
  IF r.kind \in {"prefix", "suffix"}
  THEN AttachedKey(r.kids[1], attach_s(k, r.att, r.kind = "prefix"))
  ELSE k

AttachedEntries(r, m) == [i \in 1..Len(m) |-> [k |-> AttachedKey(r, m[i].k), v |-> m[i].v]]

\* C4: through a chain of prefix and suffix wrappers around a memory
\* reporter, every value reported under k, by report or by report_all, is
\* appended to the base's list of the attached key, and reading k through
\* the chain's reader() returns the list the base holds for the attached key.
C4_AttachmentRoundTrip ==
  /\ last.op = "report" =>
       mem["m1"] = Appended(prev.mem["m1"],
                            <<[k |-> AttachedKey(subject, last.k), v |-> last.v]>>)
  /\ last.op = "report_all" =>
       mem["m1"] = Appended(prev.mem["m1"], AttachedEntries(subject, last.m))
  /\ last.op = "read" =>
       ret = Returned(MemoryGet(mem["m1"], AttachedKey(subject, last.k)), <<>>)

\* the same, for report, for read, and for a report_all whose keys have
\* different string forms
C4_DistinctKeysRoundTrip ==
  /\ last.op = "report" =>
       mem["m1"] = Appended(prev.mem["m1"],
                            <<[k |-> AttachedKey(subject, last.k), v |-> last.v]>>)
  /\ (/\ last.op = "report_all"
      /\ \A i, j \in 1..Len(last.m) : i # j => PyStr(last.m[i].k) # PyStr(last.m[j].k)) =>
       mem["m1"] = Appended(prev.mem["m1"], AttachedEntries(subject, last.m))
  /\ last.op = "read" =>
       ret = Returned(MemoryGet(mem["m1"], AttachedKey(subject, last.k)), <<>>)

----------------------------------------------------------------------------
(* filter_values / filter_step over a memory reporter, with or without an  *)
(* on_false reporter                                                       *)

Mem2 == MemoryReporter("m2")

Filters ==
  {FilterValuesReporter(Mem1, pred, on_false) :
     pred \in Predicates, on_false \in {<<>>, <<Mem2>>}}

\* the answers the predicate gives to its next n calls: whatever it likes if
\* it keeps state of its own, and not consulted otherwise
Answers(pred, n) ==
  IF pred = "flaky" THEN [1..n -> BOOLEAN] ELSE {[i \in 1..n |-> TRUE]}

FilterKeys == {KeyA, KeyB}

FilteredReport ==
  \E step \in {0, 1}, k \in FilterKeys, v \in {1, 2}, bits \in Answers(subject.fn, 1) :
    /\ nops < MaxFilterOps
    /\ CallReport(subject, step, k, v, bits)
    /\ UNCHANGED hist

\* report_all asks the predicate twice about every entry
FilteredReportAll ==
  \E step \in {0, 1}, m \in NumberedDicts(FilterKeys) :
    \E bits \in Answers(subject.fn, 2 * Len(m)) :
      /\ nops < MaxFilterOps
      /\ CallReportAll(subject, step, m, bits)
      /\ UNCHANGED hist

InitFilter ==
  /\ InitStores /\ InitRegistryIdle /\ InitManagerIdle
  /\ subject \in Filters

NextFilter == FilteredReport \/ FilteredReportAll

SpecFilter == InitFilter /\ [][NextFilter]_vars

\* the entries of the last report or report_all
LastEntries ==
  IF last.op = "report" THEN <<[k |-> last.k, v |-> last.v]>> ELSE last.m

\* what the last call appended to the list of k in memory reporter id
Grown(id, k) ==
  LET old == MemoryGet(prev.mem[id], k)
      new == MemoryGet(mem[id], k)
  IN SubSeq(new, Len(old) + 1, Len(new))

Count(s, v) == Cardinality({i \in DOMAIN s : s[i] = v})

\* how many times the last call delivered entry e to memory reporter id
DeliveredTo(id, e) == Count(Grown(id, e.k), e.v)

\* C5: every entry of a report or report_all on a FilterValuesReporter goes
\* to exactly one destination: base if the predicate accepts it, otherwise
\* on_false if there is one, otherwise nowhere; never to both, never twice,
\* and never nowhere when there is an on_false. This for every predicate,
\* whether or not it answers the same way each time it is asked.
C5_FilterPartition ==
  last.op \in {"report", "report_all"} =>
    \A i \in 1..Len(LastEntries) :
      LET b == DeliveredTo("m1", LastEntries[i])
          f == DeliveredTo("m2", LastEntries[i])
      IN /\ b + f <= 1
         /\ subject.alt # <<>> => b + f = 1
         /\ subject.alt = <<>> => f = 0
         /\ subject.fn # "flaky" =>
              (b = 1 <=> PredAnswer(subject.fn, last.step, LastEntries[i].v, FALSE))
         /\ (subject.fn = "flaky" /\ last.op = "report") => (b = 1 <=> last.bits[1])

\* the same for the predicates that are functions of (step, value)
C5_PurePredicatePartition == subject.fn # "flaky" => C5_FilterPartition

----------------------------------------------------------------------------
(* MultiReporter over memory reporters and logging lambdas                 *)

\* LambdaReporter(report=f, report_all=g) where f and g note the call and
\* hand it to the memory reporter m1
Probe(id) == LambdaReporter(id, Mem1, TRUE, TRUE)

MultiChildren == {Mem1, Mem2, Probe("l1"), Probe("l2")}

Multis == {MultiReporter(rs) : rs \in UNION {[1..n -> MultiChildren] : n \in 0..MaxFan}}

MultiKeys == {KeyA, Key1}

MultiReportOne ==
  \E k \in MultiKeys :
    /\ nops < MaxMultiOps
    /\ CallReport(subject, 0, k, 7, <<>>)
    /\ UNCHANGED hist

MultiReportMany ==
  \E m \in NumberedDicts(MultiKeys) :
    /\ nops < MaxMultiOps
    /\ CallReportAll(subject, 1, m, <<>>)
    /\ UNCHANGED hist

InitMulti ==
  /\ InitStores /\ InitRegistryIdle /\ InitManagerIdle
  /\ subject \in Multis

NextMulti == MultiReportOne \/ MultiReportMany

SpecMulti == InitMulti /\ [][NextMulti]_vars

\* the memory reporter a child of the MultiReporter writes to
StoreOf(r) == IF r.kind = "lambda" THEN r.kids[1].id ELSE r.id

\* es, n times over
RECURSIVE Repeat(_, _)
Repeat(es, n) == IF n = 0 THEN <<>> ELSE es \o Repeat(es, n - 1)

IsProbe(r) == r.kind = "lambda"

\* C6: a MultiReporter built from n reporters, duplicates allowed, forwards
\* each report and report_all to each of the n once, in construction order:
\* a memory reporter wrapped c times gets c copies of every value, and the
\* lambdas among the n are called one after the other in their order in the
\* constructor's arguments, each with the call's own arguments.
C6_MultiFanOut ==
  last.op \in {"report", "report_all"} =>
    LET rs == subject.kids
        probes == SelectSeq(rs, IsProbe)
    IN /\ \A id \in MemIds :
            mem[id] = Appended(prev.mem[id],
                               Repeat(LastEntries,
                                      Cardinality({i \in DOMAIN rs : StoreOf(rs[i]) = id})))
       /\ calls = [i \in 1..Len(probes) |->
                     [to |-> probes[i].id, meth |-> last.op, step |-> last.step,
                      m |-> LastEntries]]

\* one value reported once through three references to the same memory
\* reporter: three copies in the key's list
C6_Witness ==
  /\ last.op = "report"
  /\ subject.kids = <<Mem1, Mem1, Mem1>>
  /\ mem["m1"][PyStr(last.k)] = <<last.v, last.v, last.v>>

----------------------------------------------------------------------------
(* The readers' read_all *)

AttP == StrAtt(<<"p">>)

Readers ==
  {MemoryReader("m1"), EmptyReader, SQLReader,
   PrefixedReader(MemoryReader("m1"), AttP), SuffixedReader(MemoryReader("m1"), AttP)}

KeyPA == StrKey(<<"p", ".", "a">>)
KeyAP == StrKey(<<"a", ".", "p">>)

\* the stores are filled through one reporter that writes to both
BothStores == MultiReporter(<<Mem1, SQLReporter>>)

ReadersFill ==
  \E step \in {0, 1}, k \in {KeyA, KeyB, KeyPA, KeyAP} :
    /\ nops < MaxReaderOps
    /\ CallReport(BothStores, step, k, 7, <<>>)
    /\ UNCHANGED hist

ReadersReadAll ==
  \E rd \in Readers, ks \in KeyLists({KeyA, KeyB}, MaxDict) :
    /\ CallReadAll(rd, ks)
    /\ UNCHANGED nops

InitReaders == InitStores /\ InitNoSubject /\ InitRegistryIdle /\ InitManagerIdle

NextReaders == ReadersFill \/ ReadersReadAll

SpecReaders == InitReaders /\ [][NextReaders]_vars

\* C7: read_all(ks) of a MemoryReader, EmptyReader, PrefixedReader,
\* SuffixedReader or SQLReader returns a dict whose keys are exactly the keys
\* of ks, and a key of ks with no stored data is there with the empty list.
C7_ReadAllKeySet ==
  last.op = "read_all" =>
    /\ ret.exc = "none"
    /\ {ret.dict[i].k : i \in 1..Len(ret.dict)} = {last.ks[i] : i \in 1..Len(last.ks)}
    /\ \A i \in 1..Len(last.ks) :
         Read(last.rd, mem, sql, last.ks[i]).list = <<>> =>
           (DictHas(ret.dict, last.ks[i]) /\ DictGet(ret.dict, last.ks[i]) = <<>>)

\* the same for the readers that keep a dict or nothing
C7_MemoryAndEmpty == last.rd.kind \in {"memory", "empty"} => C7_ReadAllKeySet

----------------------------------------------------------------------------
(* The measurement schedulers: uv/manager/manager.py,                      *)
(* uv/experimental/manager/impl.py, uv/experimental/metriccallback/impl.py *)
(*                                                                         *)
(* measurements is a dict from name to [interval, trigger, function]; a    *)
(* MeasurementManager's specs carry an interval, a MetricCallback's a      *)
(* trigger. Functions and triggers are named.                              *)

MeasurementSpec(interval, trigger, function) ==
  [interval |-> interval, trigger |-> trigger, function |-> function]

\* the measurement functions: lambda state: 0,
\* lambda state: state['Value1'] + state['Value3'], and
\* lambda state: 100 // state['Value3']
MeasurementFn(function, full_state) ==
  CASE function = "zero" -> [exc |-> "none", v |-> 0]
    [] function = "sum13" ->
         IF DictHas(full_state, "Value1") /\ DictHas(full_state, "Value3")
         THEN [exc |-> "none", v |-> DictGet(full_state, "Value1") + DictGet(full_state, "Value3")]
         ELSE [exc |-> "KeyError", v |-> 0]
    [] function = "inverse3" ->
         IF ~DictHas(full_state, "Value3") THEN [exc |-> "KeyError", v |-> 0]
         ELSE IF DictGet(full_state, "Value3") = 0 THEN [exc |-> "ZeroDivisionError", v |-> 0]
         ELSE [exc |-> "none", v |-> 100 \div DictGet(full_state, "Value3")]

\* the trigger functions: lambda step: step % 2 == 0, lambda step: False
TriggerFn(trigger, step) ==
  CASE trigger = "even" -> step % 2 = 0
    [] trigger = "never" -> FALSE

\* uv/experimental/manager/impl.py, add_measurement
add_measurement(measurements, name, spec) ==
  IF spec.interval <= 0
  THEN [exc |-> "ValueError", measurements |-> measurements]
  ELSE [exc |-> "none", measurements |-> DictSet(measurements, name, spec)]

\* uv/manager/manager.py and uv/experimental/metriccallback/impl.py,
\* add_measurement
add_measurement_unchecked(measurements, name, spec) ==
  [exc |-> "none", measurements |-> DictSet(measurements, name, spec)]

\* MeasurementManager.triggered: the names whose interval divides step, in
\* the dict's order
RECURSIVE triggered(_, _)
triggered(measurements, step) ==
  IF measurements = <<>> THEN <<>>
  ELSE (IF step % measurements[1].v.interval = 0 THEN <<measurements[1].k>> ELSE <<>>)
       \o triggered(Tail(measurements), step)

\* MetricCallback.triggered: the names whose trigger accepts step
RECURSIVE callback_triggered(_, _)
callback_triggered(measurements, step) ==
  IF measurements = <<>> THEN <<>>
  ELSE (IF TriggerFn(measurements[1].v.trigger, step) THEN <<measurements[1].k>> ELSE <<>>)
       \o callback_triggered(Tail(measurements), step)

\* for name in measurement_list: measurements[name] = function(full_state)
RECURSIVE Measured(_, _, _, _)
Measured(acc, measurements, full_state, measurement_list) ==
  IF measurement_list = <<>> THEN [exc |-> "none", m |-> acc]
  ELSE IF ~DictHas(measurements, measurement_list[1]) THEN [exc |-> "KeyError", m |-> acc]
  ELSE LET r == MeasurementFn(DictGet(measurements, measurement_list[1]).function, full_state)
       IN IF r.exc # "none" THEN [exc |-> r.exc, m |-> acc]
          ELSE Measured(DictSet(acc, measurement_list[1], r.v), measurements,
                        full_state, Tail(measurement_list))

\* MeasurementManager(static_state, reporter): the reporter notes each
\* report_all it gets and hands it to the memory reporter m1
BoundReporter == LambdaReporter("l1", Mem1, FALSE, TRUE)

measure_due_only(m, st, step, dynamic_state, measurement_list) ==
  LET r == Measured(<<>>, m.measurements, DictUpdate(m.static_state, dynamic_state),
                    triggered(m.measurements, step))
  IN IF r.exc # "none" THEN Raise(st, r.exc)
     ELSE IF Len(r.m) > 0 THEN ReportAll(BoundReporter, st, step, r.m)
     ELSE st

\* uv/experimental/manager/impl.py, measure
measure(m, st, step, dynamic_state, measurement_list) ==
  LET r == Measured(<<>>, m.measurements, DictUpdate(m.static_state, dynamic_state),
                    measurement_list)
  IN IF r.exc # "none" THEN Raise(st, r.exc)
     ELSE IF Len(r.m) > 0 THEN ReportAll(BoundReporter, st, step, r.m)
     ELSE st

perform_specified_measurements_as_computed(m, st, step, dynamic_state, measurement_list) ==
  LET r == Measured(<<>>, m.measurements, DictUpdate(m.static_state, dynamic_state),
                    measurement_list)
      st1 == IF Len(r.m) > 0 THEN ReportAll(BoundReporter, st, step, r.m) ELSE st
  IN IF r.exc # "none" THEN Raise(st1, r.exc) ELSE st1
\* uv/manager/manager.py, perform_specified_measurements
perform_specified_measurements(m, st, step, dynamic_state, measurement_list) ==
  LET r == Measured(<<>>, m.measurements, DictUpdate(m.static_state, dynamic_state),
                    measurement_list)
  IN IF r.exc # "none" THEN Raise(st, r.exc)
     ELSE ReportAll(BoundReporter, st, step, r.m)

\* uv/manager/manager.py, process: required_measurements(step) is a
\* generator, none of whose body has run when len() is applied to it, and
\* len() of a generator raises TypeError
process(m, st, step, dynamic_state) == Raise(st, "TypeError")

\* uv/experimental/metriccallback/impl.py, measure: the dict, or None
callback_measure(m, step, dynamic_state, measurement_list) ==
  LET r == Measured(<<>>, m.measurements, DictUpdate(m.static_state, dynamic_state),
                    measurement_list)
  IN IF r.exc # "none" THEN Raised(r.exc)
     ELSE IF Len(r.m) > 0 THEN Returned(<<>>, r.m)
     ELSE [NoRet EXCEPT !.none = TRUE]

Classes == {"manager", "experimental", "callback"}

StaticState == <<[k |-> "Value1", v |-> 2], [k |-> "Value3", v |-> 100]>>

\* the dynamic_state a caller hands over at step
DynamicStates(step) == {<<>>, <<[k |-> "Value3", v |-> step * step]>>}

Names == {KeyA, KeyB}

\* the measurement a caller registers under a name
FunctionOf(name) == IF name = KeyA THEN "zero" ELSE "sum13"

\* the explicit measurement lists a caller passes
NameLists == {<<>>, <<KeyA>>, <<KeyB, KeyA>>}

\* manager.add_measurement({'name':, 'interval':, 'function':})
AddMeasurement ==
  \E name \in Names, interval \in -1..MaxInterval :
    LET spec == MeasurementSpec(interval, "", FunctionOf(name))
        r == IF mgr.class = "experimental"
             THEN add_measurement(mgr.measurements, name, spec)
             ELSE add_measurement_unchecked(mgr.measurements, name, spec)
    IN /\ mgr.class \in {"manager", "experimental"}
       /\ mgr.step = 0
       /\ mgr' = [mgr EXCEPT !.measurements = r.measurements]
       /\ ret' = IF r.exc = "none" THEN NoRet ELSE Raised(r.exc)
       /\ last' = [NoOp EXCEPT !.op = "add_measurement", !.k = name, !.v = interval,
                               !.was = mgr.measurements]
       /\ prev' = Before
       /\ UNCHANGED <<mem, params, sql, calls, hist, nops, reports, registryVars>>

\* callback.add_measurement({'name':, 'trigger':, 'function':})
AddTriggered ==
  \E name \in Names, trigger \in {"even", "never"} :
    LET spec == MeasurementSpec(0, trigger, FunctionOf(name))
        r == add_measurement_unchecked(mgr.measurements, name, spec)
    IN /\ mgr.class = "callback"
       /\ mgr.step = 0
       /\ mgr' = [mgr EXCEPT !.measurements = r.measurements]
       /\ ret' = NoRet
       /\ last' = [NoOp EXCEPT !.op = "add_measurement", !.k = name,
                               !.was = mgr.measurements]
       /\ prev' = Before
       /\ UNCHANGED <<mem, params, sql, calls, hist, nops, reports, registryVars>>

\* the effects of a call of the manager, and the loop moves to the next step
ManagerCall(st, op) ==
  /\ Commit(st, [op EXCEPT !.step = mgr.step, !.was = mgr.measurements])
  /\ reports' = reports \o st.calls
  /\ mgr' = [mgr EXCEPT !.step = @ + 1]
  /\ UNCHANGED <<hist, registryVars>>

\* manager.measure(step, dynamic_state)
Measure ==
  \E dynamic_state \in DynamicStates(mgr.step) :
    /\ mgr.class = "experimental"
    /\ mgr.step < MaxSteps
    /\ ManagerCall(measure(mgr, StateNow(<<>>), mgr.step, dynamic_state,
                           triggered(mgr.measurements, mgr.step)),
                   [NoOp EXCEPT !.op = "measure", !.m = dynamic_state])

\* manager.measure(step, dynamic_state, measurement_list)
MeasureListed ==
  \E dynamic_state \in DynamicStates(mgr.step), measurement_list \in NameLists :
    /\ mgr.class = "experimental"
    /\ mgr.step < MaxSteps
    /\ ManagerCall(measure(mgr, StateNow(<<>>), mgr.step, dynamic_state, measurement_list),
                   [NoOp EXCEPT !.op = "measure", !.m = dynamic_state, !.forced = TRUE,
                                !.ks = measurement_list])

\* manager.process(step, dynamic_state)
Process ==
  \E dynamic_state \in DynamicStates(mgr.step) :
    /\ mgr.class = "manager"
    /\ mgr.step < MaxSteps
    /\ ManagerCall(process(mgr, StateNow(<<>>), mgr.step, dynamic_state),
                   [NoOp EXCEPT !.op = "process", !.m = dynamic_state])

\* manager.perform_specified_measurements(step, dynamic_state, measurement_list)
PerformSpecified ==
  \E dynamic_state \in DynamicStates(mgr.step), measurement_list \in NameLists :
    /\ mgr.class = "manager"
    /\ mgr.step < MaxSteps
    /\ ManagerCall(perform_specified_measurements(mgr, StateNow(<<>>), mgr.step,
                                                  dynamic_state, measurement_list),
                   [NoOp EXCEPT !.op = "perform", !.m = dynamic_state, !.forced = TRUE,
                                !.ks = measurement_list])

\* callback.measure(step, dynamic_state) and
\* callback.measure(step, dynamic_state, measurement_list)
CallbackMeasure ==
  /\ mgr.class = "callback"
  /\ mgr.step < MaxSteps
  /\ \E dynamic_state \in DynamicStates(mgr.step), forced \in BOOLEAN :
    \E measurement_list \in IF forced THEN NameLists
                            ELSE {callback_triggered(mgr.measurements, mgr.step)} :
      /\ ret' = callback_measure(mgr, mgr.step, dynamic_state, measurement_list)
      /\ last' = [NoOp EXCEPT !.op = "measure", !.m = dynamic_state, !.forced = forced,
                              !.ks = IF forced THEN measurement_list ELSE <<>>,
                              !.step = mgr.step, !.was = mgr.measurements]
      /\ prev' = Before
      /\ mgr' = [mgr EXCEPT !.step = @ + 1]
      /\ UNCHANGED <<mem, params, sql, calls, hist, nops, reports, registryVars>>

InitScheduler ==
  /\ InitStores /\ InitNoSubject /\ InitRegistryIdle
  /\ mgr \in [class : Classes, static_state : {StaticState}, measurements : {<<>>},
              step : {0}]
  /\ reports = <<>>

NextScheduler ==
  \/ AddMeasurement
  \/ AddTriggered
  \/ Measure
  \/ MeasureListed
  \/ Process
  \/ PerformSpecified
  \/ CallbackMeasure

SpecScheduler == InitScheduler /\ [][NextScheduler]_vars

\* the names registered with a positive interval that divides step, or with
\* a trigger that accepts step, in the order of registration
RECURSIVE DueAt(_, _)
DueAt(measurements, step) ==
  IF measurements = <<>> THEN <<>>
  ELSE LET spec == measurements[1].v
           due == IF spec.trigger = ""
                  THEN spec.interval > 0 /\ step % spec.interval = 0
                  ELSE TriggerFn(spec.trigger, step)
       IN (IF due THEN <<measurements[1].k>> ELSE <<>>) \o DueAt(Tail(measurements), step)

\* the names last call measured and handed over, reported to the bound
\* reporter under the call's step or returned
Performed ==
  IF mgr.class = "callback"
  THEN (IF ret.exc = "none" /\ ~ret.none THEN DictKeys(ret.dict) ELSE <<>>)
  ELSE (IF Len(calls) = 1 /\ calls[1].meth = "report_all" /\ calls[1].step = last.step
        THEN DictKeys(calls[1].m) ELSE <<>>)

\* C9: a measure or process call at step s without a name list performs
\* the interval measurements whose interval divides s and the trigger
\* measurements whose trigger accepts s, those and no others, under step s
\* (so, over steps 0, 1, 2, ... the measurement of interval k is reported at
\* 0, k, 2k, ... and at no other step)
C9_DueSet ==
  (last.op \in {"measure", "process"} /\ ~last.forced) =>
    /\ Performed = DueAt(mgr.measurements, last.step)
    /\ Len(calls) <= 1

\* the same for measure alone, of MeasurementManager and of MetricCallback
C9_MeasureDueSet == last.op = "measure" => C9_DueSet

\* C10: add_measurement with an interval of zero or less raises when it
\* is called, and leaves the registered measurements as they were, the
\* measurement already registered under the same name included
C10_NonPositiveIntervalRejected ==
  (last.op = "add_measurement" /\ mgr.class # "callback" /\ last.v <= 0) =>
    /\ ret.exc # "none"
    /\ mgr.measurements = last.was

\* the same for the MeasurementManager of uv/experimental/manager/impl.py
C10_ExperimentalRejects == mgr.class = "experimental" => C10_NonPositiveIntervalRejected

\* the dict last call handed over: reported to the bound reporter, or returned
Delivered ==
  IF mgr.class = "callback" THEN ret.dict
  ELSE IF Len(calls) = 1 THEN calls[1].m ELSE <<>>

Registered(names) == \A i \in 1..Len(names) : DictHas(mgr.measurements, names[i])

\* C11: measure(step, dynamic_state, names) with a list of registered
\* names measures the named measurements, those and no others, whatever
\* the step and the intervals or triggers, and reports or returns them
\* under the given step.
C11_ForcedMeasurement ==
  (last.op = "measure" /\ last.forced /\ Registered(last.ks)) =>
    /\ ret.exc = "none"
    /\ Performed = last.ks

\* two measurements of interval 2 or of a trigger that never fires, both
\* named at step 1, both reported or returned
C11_Witness ==
  /\ last.op = "measure" /\ last.forced /\ last.step = 1
  /\ last.ks = <<KeyB, KeyA>>
  /\ Registered(last.ks)
  /\ DueAt(mgr.measurements, 1) = <<>>
  /\ Performed = <<KeyB, KeyA>>

\* what lambda state: state['Value1'] + state['Value3'] is to return when the
\* call's dynamic_state shadows static_state
SumExpected(dynamic_state) ==
  DictGet(StaticState, "Value1")
    + (IF DictHas(dynamic_state, "Value3") THEN DictGet(dynamic_state, "Value3")
       ELSE DictGet(StaticState, "Value3"))

\* C12: every measurement function is called on static_state merged with
\* the dynamic_state of the same call, the dynamic value winning for a key
\* in both; static_state is never changed, so a later call does not see an
\* earlier call's dynamic values.
C12_StateMerge ==
  /\ mgr.class # "none" => mgr.static_state = StaticState
  /\ (last.op \in {"measure", "perform"} /\ ret.exc = "none") =>
       \A i \in 1..Len(Delivered) :
         Delivered[i].v = IF FunctionOf(Delivered[i].k) = "sum13"
                          THEN SumExpected(last.m) ELSE 0

\* at step 1 Value3 was given as 1 and shadowed the static 100; at step 2 no
\* Value3 was given and the measurement saw the static 100 again
C12_Witness ==
  /\ mgr.class = "experimental" /\ last.op = "measure" /\ last.step = 2
  /\ last.m = <<>>
  /\ Len(reports) >= 2
  /\ reports[Len(reports) - 1].step = 1
  /\ DictHas(reports[Len(reports) - 1].m, KeyB)
  /\ DictGet(reports[Len(reports) - 1].m, KeyB) = 3
  /\ DictHas(Delivered, KeyB) /\ DictGet(Delivered, KeyB) = 102

\* the names a call is to measure: those named, or those due
ToMeasure == IF last.forced THEN last.ks ELSE DueAt(last.was, last.step)

\* C13: a call with nothing to measure makes no report_all call on the
\* bound reporter (MetricCallback.measure returns None, not an empty dict);
\* a call with something to measure makes exactly one report_all call (or
\* returns one dict) whose keys are the measured names.
C13_NoEmptyBatch ==
  (last.op \in {"measure", "process", "perform"} /\ Registered(ToMeasure)) =>
    IF ToMeasure = <<>>
    THEN IF mgr.class = "callback" THEN ret.none ELSE calls = <<>>
    ELSE IF mgr.class = "callback"
         THEN ~ret.none /\ DictKeys(ret.dict) = ToMeasure
         ELSE Len(calls) = 1 /\ DictKeys(calls[1].m) = ToMeasure

\* the same for measure of uv/experimental/manager/impl.py and of MetricCallback
C13_MeasureNoEmptyBatch == last.op = "measure" => C13_NoEmptyBatch

----------------------------------------------------------------------------
(* close() through the combinators *)

CloseLeaves == {CountCloseReporter("c1"), CountCloseReporter("c2"), ThrowCloseReporter("t1")}

\* base.with_prefix(..), base.with_suffix(..), base.map_values(..),
\* base.from_thunk(..), base.filter_step(..)
CloseWrappers(base) ==
  {PrefixedReporter(base, AttP), SuffixedReporter(base, AttP),
   MapValuesReporter(base, "succ"), ThunkReporter(base),
   FilterValuesReporter(base, "step_even", <<>>)}

Closers ==
  UNION {CloseWrappers(b) :
           b \in CloseLeaves \cup {MultiReporter(rs) : rs \in [1..2 -> CloseLeaves]}}
    \cup {FilterValuesReporter(b, "step_even", <<f>>) : b \in CloseLeaves, f \in CloseLeaves}
    \cup {MultiReporter(rs) : rs \in UNION {[1..n -> CloseLeaves] : n \in 0..MaxFan}}

ReaderClosers ==
  UNION {{PrefixedReader(b, AttP), SuffixedReader(b, AttP),
          PrefixedReader(SuffixedReader(b, AttP), AttP)} :
           b \in {CountCloseReader("c1"), ThrowCloseReader("t1")}}

\* subject.close()
CloseReporter ==
  /\ nops < MaxCloses
  /\ Commit(Close(subject, StateNow(<<>>)), [NoOp EXCEPT !.op = "close", !.rep = subject])
  /\ UNCHANGED <<hist, registryVars, managerVars>>

\* reader.close() on a PrefixedReader or SuffixedReader
CloseAReader ==
  \E rd \in ReaderClosers :
    /\ nops < MaxCloses
    /\ Commit(CloseReader(rd, StateNow(<<>>)), [NoOp EXCEPT !.op = "close_reader", !.rd = rd])
    /\ UNCHANGED <<hist, registryVars, managerVars>>

InitClose ==
  /\ InitStores /\ InitRegistryIdle /\ InitManagerIdle
  /\ subject \in Closers

NextClose == CloseReporter \/ CloseAReader

SpecClose == InitClose /\ [][NextClose]_vars

\* the reporters with a close of their own that r wraps, in the order in
\* which r holds them, one for each occurrence
RECURSIVE LeavesOf(_), LeavesOfAll(_)
LeavesOf(r) ==
  CASE r.kind \in {"count_close", "throw_close"} -> <<r>>
    [] r.kind = "filter" -> LeavesOf(r.kids[1]) \o LeavesOfAll(r.alt)
    [] OTHER -> LeavesOfAll(r.kids)

LeavesOfAll(rs) == IF rs = <<>> THEN <<>> ELSE LeavesOf(rs[1]) \o LeavesOfAll(Tail(rs))

\* the close calls due after the last close(): one for each wrapped occurrence
DueCloses ==
  LET leaves == LeavesOf(IF last.op = "close" THEN last.rep ELSE last.rd)
  IN [i \in 1..Len(leaves) |->
        [to |-> leaves[i].id, meth |-> "close", step |-> 0, m |-> <<>>]]

SomeCloseThrows ==
  LET leaves == LeavesOf(IF last.op = "close" THEN last.rep ELSE last.rd)
  IN \E i \in 1..Len(leaves) : leaves[i].kind = "throw_close"

IsPrefixOf(a, b) == Len(a) <= Len(b) /\ a = SubSeq(b, 1, Len(a))

C15_AllClosesAttempted ==
  (last.op = "close" /\ SomeCloseThrows) =>
    /\ calls = DueCloses
    /\ ret.exc # "none"

----------------------------------------------------------------------------
(* Combinators over a reporter that raises *)

Broken == BrokenReporter("b1")

\* the pure predicates a filter is built with here
PurePredicates == {"step_even", "sum_even"}

FailSubjects ==
  {MultiReporter(rs) :
     rs \in UNION {[1..n -> {Mem1, Mem2, Broken, Probe("l1")}] : n \in 1..MaxFan}}
    \cup {FilterValuesReporter(Broken, pred, <<Mem2>>) : pred \in PurePredicates}
    \cup {FilterValuesReporter(Mem1, pred, <<Broken>>) : pred \in PurePredicates}

FailingReport ==
  \E step \in {0, 1}, k \in FilterKeys, v \in {1, 2} :
    /\ nops < MaxFailOps
    /\ CallReport(subject, step, k, v, <<TRUE>>)
    /\ UNCHANGED hist

FailingReportAll ==
  \E step \in {0, 1}, m \in NumberedDicts(FilterKeys) :
    /\ nops < MaxFailOps
    /\ CallReportAll(subject, step, m, [i \in 1..(2 * Len(m)) |-> TRUE])
    /\ UNCHANGED hist

InitFail ==
  /\ InitStores /\ InitRegistryIdle /\ InitManagerIdle
  /\ subject \in FailSubjects

NextFail == FailingReport \/ FailingReportAll

SpecFail == InitFail /\ [][NextFail]_vars

\* the place of the first child of rs that raises, Len(rs) + 1 if none does
FirstBroken(rs) ==
  IF \E i \in 1..Len(rs) : rs[i].kind = "broken"
  THEN CHOOSE i \in 1..Len(rs) :
         rs[i].kind = "broken" /\ \A j \in 1..(i - 1) : rs[j].kind # "broken"
  ELSE Len(rs) + 1

IsLogged(r) == r.kind \in {"lambda", "broken"}

\* the entries of the last call that its filter's predicate accepts, rejects
Accepted ==
  SelectSeq(LastEntries, LAMBDA e : PredAnswer(subject.fn, last.step, e.v, FALSE))
Rejected ==
  SelectSeq(LastEntries, LAMBDA e : ~PredAnswer(subject.fn, last.step, e.v, FALSE))

\* C16: when a wrapped reporter raises during a report or report_all made
\* through a combinator, the caller gets the exception and what was already
\* written stays: of a MultiReporter whose i-th child raises, the children
\* before i have the batch and the children after i were not called; of a
\* FilterValuesReporter whose base raises, the on_false reporter gets none
\* of the batch.
C16_FailFast ==
  last.op \in {"report", "report_all"} =>
    IF subject.kind = "multi"
    THEN LET rs == subject.kids
             i == FirstBroken(rs)
             called == SelectSeq(SubSeq(rs, 1, IF i > Len(rs) THEN Len(rs) ELSE i), IsLogged)
         IN /\ ret.exc = IF i > Len(rs) THEN "none" ELSE "IOError"
            /\ \A id \in MemIds :
                 mem[id] = Appended(prev.mem[id],
                                    Repeat(LastEntries,
                                           Cardinality({j \in 1..(i - 1) : StoreOf(rs[j]) = id})))
            /\ calls = [j \in 1..Len(called) |->
                          [to |-> called[j].id, meth |-> last.op, step |-> last.step,
                           m |-> LastEntries]]
    ELSE IF subject.kids[1] = Broken
    THEN IF Accepted # <<>>
         THEN ret.exc = "IOError" /\ mem = prev.mem
         ELSE ret.exc = "none" /\ mem["m2"] = Appended(prev.mem["m2"], Rejected)
    ELSE /\ ret.exc = IF Rejected # <<>> THEN "IOError" ELSE "none"
         /\ mem["m1"] = Appended(prev.mem["m1"], Accepted)
         /\ mem["m2"] = prev.mem["m2"]

\* a batch of two through MultiReporter(m1, broken, m2): IOError, m1 has the
\* batch, m2 has nothing
C16_Witness ==
  /\ last.op = "report_all" /\ Len(last.m) = 2
  /\ subject = MultiReporter(<<Mem1, Broken, Mem2>>)
  /\ ret.exc = "IOError"
  /\ mem["m1"] # EmptyStore
  /\ mem["m2"] = EmptyStore

----------------------------------------------------------------------------
(* Empty attachments: None, the empty string, the empty list *)

EmptyAttachments == {NoneAtt, StrAtt(<<>>), ListAtt(<<>>)}

\* string keys
EmptyKeys == {KeyA, KeyB, StrKey(<<"a", ".", "b">>)}

\* the memory reporter behind with_prefix(a) or with_suffix(a), a empty
EmptyWrapped ==
  {PrefixedReporter(Mem1, a) : a \in EmptyAttachments}
    \cup {SuffixedReporter(Mem1, a) : a \in EmptyAttachments}

\* attach_s(k, a, prefix)
EmptyAttach ==
  \E k \in EmptyKeys, a \in EmptyAttachments, prefix \in BOOLEAN :
    /\ nops < MaxEmptyOps
    /\ ret' = Returned(<<attach_s(k, a, prefix)>>, <<>>)
    /\ last' = [NoOp EXCEPT !.op = "attach_s", !.k = k, !.att = a, !.prefix = prefix]
    /\ prev' = Before
    /\ nops' = nops + 1
    /\ UNCHANGED <<mem, params, sql, calls, hist, registryVars, managerVars>>

\* subject.report(step, k, v)
EmptyReport ==
  \E k \in EmptyKeys, v \in {1, 2} :
    /\ nops < MaxEmptyOps
    /\ CallReport(subject, 0, k, v, <<>>)
    /\ UNCHANGED hist

\* subject.reader().read(k)
EmptyRead ==
  \E k \in EmptyKeys :
    /\ nops < MaxEmptyOps
    /\ CallRead(ReaderOf(subject), k)
    /\ nops' = nops + 1

InitEmptyAttach ==
  /\ InitStores /\ InitRegistryIdle /\ InitManagerIdle
  /\ subject \in EmptyWrapped

NextEmptyAttach == EmptyAttach \/ EmptyReport \/ EmptyRead

SpecEmptyAttach == InitEmptyAttach /\ [][NextEmptyAttach]_vars

\* C19: attaching with an empty or None attachment is the identity: for
\* every string key k, attach_s(k, a, prefix) is k when a is None, the empty
\* string or the empty list, as a prefix and as a suffix, so a reporter
\* wrapped with such an attachment stores under the original key and a
\* reader wrapped with it reads the original key.
C19_EmptyAttachmentIdentity ==
  /\ last.op = "attach_s" => ret.list = <<last.k>>
  /\ last.op = "report" =>
       mem["m1"] = MemoryAppend(prev.mem["m1"], last.k, last.v)
  /\ last.op = "read" => ret.list = MemoryGet(mem["m1"], last.k)

\* the part of C19 the code keeps: None and the empty list leave the key
\* as it is
C19_NoneAndEmptyListIdentity ==
  /\ (last.op = "attach_s" /\ last.att.t # "str") => ret.list = <<last.k>>
  /\ (last.op = "report" /\ subject.att.t # "str") =>
       mem["m1"] = MemoryAppend(prev.mem["m1"], last.k, last.v)
  /\ (last.op = "read" /\ subject.att.t # "str") =>
       ret.list = MemoryGet(mem["m1"], last.k)

----------------------------------------------------------------------------
(* by_prefix and by_suffix *)

\* labels and keys that collide once attached: "a" with "b.c" and "a.b"
\* with "c" as prefixes, "a.b" with "c" and "a" with "b.c" as suffixes
PartsABC == {StrKey(<<"a">>), StrKey(<<"a", ".", "b">>), StrKey(<<"z">>)}
PartsBC == {StrKey(<<"b", ".", "c">>), StrKey(<<"c">>), StrKey(<<"z">>)}

\* ms with the j-th label's i-th entry holding the value 10 * j + i
Labelled(ms) ==
  [j \in 1..Len(ms) |->
     [k |-> ms[j].k,
      v |-> [i \in 1..Len(ms[j].v) |-> [k |-> ms[j].v[i].k, v |-> 10 * j + i]]]]

\* the dicts of at most MaxLabels labelled maps
LabelledMaps(labels, keys) ==
  {Labelled(ms) : ms \in DictsOf(labels, NumberedDicts(keys), MaxLabels)}

\* a run merges one dict of labelled maps
ByPrefix ==
  /\ last.op = "none"
  /\ \E ms \in LabelledMaps(PartsABC, PartsBC) :
    /\ ret' = Returned(<<>>, by_prefix(ms))
    /\ last' = [NoOp EXCEPT !.op = "by_prefix", !.m = ms, !.prefix = TRUE]
    /\ prev' = Before
    /\ UNCHANGED <<mem, params, sql, calls, hist, nops, registryVars, managerVars>>

BySuffix ==
  /\ last.op = "none"
  /\ \E ms \in LabelledMaps(PartsBC, PartsABC) :
    /\ ret' = Returned(<<>>, by_suffix(ms))
    /\ last' = [NoOp EXCEPT !.op = "by_suffix", !.m = ms, !.prefix = FALSE]
    /\ prev' = Before
    /\ UNCHANGED <<mem, params, sql, calls, hist, nops, registryVars, managerVars>>

InitByAttachment == InitStores /\ InitNoSubject /\ InitRegistryIdle /\ InitManagerIdle

NextByAttachment == ByPrefix \/ BySuffix

SpecByAttachment == InitByAttachment /\ [][NextByAttachment]_vars

\* the key the i-th entry of the j-th labelled map of the last call gets
Merged(j, i) == attach_s(last.m[j].v[i].k, StrAtt(PyStr(last.m[j].k)), last.prefix)

\* the positions <<j, i>> of the entries of the last call's labelled maps
Positions == {<<j, i>> \in (1..Len(last.m)) \X (1..MaxDict + 1) : i <= Len(last.m[j].v)}

\* the entries whose attached key is the one of entry <<j, i>>
Rivals(p) == {q \in Positions : Merged(q[1], q[2]) = Merged(p[1], p[2])}

\* C20: by_prefix/by_suffix merge the labelled maps into one map that has
\* the attached key of every entry of every labelled map and no other key,
\* and when entries of two labels get the same attached key, the value of
\* the label that comes last in the input's iteration order is kept.
C20_LastLabelWins ==
  last.op \in {"by_prefix", "by_suffix"} =>
    /\ {ret.dict[n].k : n \in 1..Len(ret.dict)} =
         {Merged(p[1], p[2]) : p \in Positions}
    /\ \A p \in Positions :
         (\A q \in Rivals(p) : q[1] <= p[1]) =>
            DictGet(ret.dict, Merged(p[1], p[2])) = last.m[p[1]].v[p[2]].v

\* what the code does instead: on a collision the value of the label that
\* comes first in the input's iteration order is kept
C20_FirstLabelWins ==
  last.op \in {"by_prefix", "by_suffix"} =>
    /\ {ret.dict[n].k : n \in 1..Len(ret.dict)} =
         {Merged(p[1], p[2]) : p \in Positions}
    /\ \A p \in Positions :
         (\A q \in Rivals(p) : q[1] >= p[1]) =>
            DictGet(ret.dict, Merged(p[1], p[2])) = last.m[p[1]].v[p[2]].v

----------------------------------------------------------------------------
(* flatten *)

FlatKeys == {StrKey(<<"a">>), StrKey(<<"b">>), StrKey(<<"a", ":", "b">>)}

\* a dict of leaves, the i-th entry holding the leaf i
LeafDicts ==
  {[i \in 1..Len(d) |-> [k |-> d[i].k, v |-> Leaf(d[i].v)]] : d \in NumberedDicts(FlatKeys)}

\* the dicts of at most MaxDict entries whose values are the leaf 7 or a
\* dict of leaves
NestedDicts == DictsOf(FlatKeys, {Leaf(7)} \cup {Nested(d) : d \in LeafDicts}, MaxDict)

\* flatten(m), once in a run
Flatten ==
  /\ last.op = "none"
  /\ \E m \in NestedDicts :
       /\ ret' = Returned(<<>>, flatten(m))
       /\ last' = [NoOp EXCEPT !.op = "flatten", !.m = m]
       /\ prev' = Before
       /\ UNCHANGED <<mem, params, sql, calls, hist, nops, registryVars, managerVars>>

\* flatten(flatten(m))
FlattenAgain ==
  /\ last.op = "flatten"
  /\ ret.exc = "none"
  /\ ret' = Returned(<<>>, flatten(ret.dict))
  /\ last' = [last EXCEPT !.op = "flatten_again", !.was = ret.dict]
  /\ prev' = Before
  /\ UNCHANGED <<mem, params, sql, calls, hist, nops, registryVars, managerVars>>

InitFlatten == InitStores /\ InitNoSubject /\ InitRegistryIdle /\ InitManagerIdle

NextFlatten == Flatten \/ FlattenAgain

SpecFlatten == InitFlatten /\ [][NextFlatten]_vars

\* the flattened key of every leaf of m, one per path, in the order flatten
\* meets them
RECURSIVE Paths(_, _)
Paths(d, parent_key) ==
  IF d = <<>> THEN <<>>
  ELSE LET key == IF parent_key = <<>> THEN PyStr(d[1].k)
                  ELSE parent_key \o <<":">> \o PyStr(d[1].k)
       IN (IF d[1].v.t = "map" THEN Paths(d[1].v.d, key) ELSE <<key>>)
            \o Paths(Tail(d), parent_key)

\* two different paths of m collapse to the same flattened key
Collides(m) ==
  \E i, j \in 1..Len(Paths(m, <<>>)) : i < j /\ Paths(m, <<>>)[i] = Paths(m, <<>>)[j]

\* no value of m is itself a map
IsFlat(m) == \A i \in 1..Len(m) : m[i].v.t = "leaf"

\* C21: flatten raises an error whenever two different paths of the input
\* collapse to the same flattened key; it never keeps one value and drops
\* the other.
C21_FlattenCollisionRaises ==
  (last.op = "flatten" /\ Collides(last.m)) => ret.exc # "none"

\* C22: flatten is idempotent and the identity on flat maps: for every
\* nested map m without colliding flattened keys flatten(flatten(m)) is
\* flatten(m), entry for entry, and flatten(m) is m when no value of m is a
\* map; the flattened map has one entry per leaf of m, under the key made of
\* the leaf's path.
C22_FlattenIdempotent ==
  /\ (last.op = "flatten" /\ IsFlat(last.m)) => ret.dict = last.m
  /\ (last.op = "flatten" /\ ~Collides(last.m)) =>
       /\ IsFlat(ret.dict)
       /\ [i \in 1..Len(ret.dict) |-> PyStr(ret.dict[i].k)] = Paths(last.m, <<>>)
  /\ (last.op = "flatten_again" /\ ~Collides(last.m)) => ret.dict = last.was

\* C22's case: a map with a nested map and a leaf was flattened to two
\* entries, and the result flattened again
C22_Witness ==
  /\ last.op = "flatten_again"
  /\ ~Collides(last.m)
  /\ ~IsFlat(last.m)
  /\ Len(last.m) = 2
  /\ Len(last.was) = 3
  /\ ret.dict = last.was

----------------------------------------------------------------------------
(* int keys and str keys: a memory reporter written directly and through  *)
(* with_prefix("p")                                                        *)

KeySubjects == {Mem1, PrefixedReporter(Mem1, StrAtt(<<"p">>))}

KeysReport ==
  \E k \in ChainKeys, v \in {1, 2} :
    /\ nops < MaxKeyOps
    /\ CallReport(subject, 0, k, v, <<>>)
    /\ UNCHANGED hist

KeysReportAll ==
  \E m \in NumberedDicts(ChainKeys) :
    /\ nops < MaxKeyOps
    /\ CallReportAll(subject, 1, m, <<>>)
    /\ UNCHANGED hist

\* subject.reader().read(k)
KeysRead ==
  \E k \in ChainKeys :
    /\ last.op # "read"
    /\ CallRead(ReaderOf(subject), k)
    /\ UNCHANGED nops

InitKeys ==
  /\ InitStores /\ InitRegistryIdle /\ InitManagerIdle
  /\ subject \in KeySubjects

NextKeys == KeysReport \/ KeysReportAll \/ KeysRead

SpecKeys == InitKeys /\ [][NextKeys]_vars

\* str(k) as a key
Stringified(k) == StrKey(PyStr(k))

\* m with every key replaced by its string form, entry by entry
StringifiedEntries(m) == [i \in 1..Len(m) |-> [k |-> Stringified(m[i].k), v |-> m[i].v]]

\* what subject.reader().read(k) returns now
ReadNow(k) == Read(ReaderOf(subject), mem, sql, k)

\* C23: keys are identified by their string form on the write and on the
\* read path: a value reported under k, by report or in a report_all batch,
\* is appended to the entry of str(k), so k and str(k) share one entry that
\* holds every value reported under either; read(k) is read(str(k)) for
\* every k; directly on a MemoryReporter and through a PrefixedReporter and
\* its reader.
C23_StringFormKeys ==
  /\ last.op = "report" =>
       mem["m1"] = Appended(prev.mem["m1"],
                            <<[k |-> AttachedKey(subject, Stringified(last.k)), v |-> last.v]>>)
  /\ last.op = "report_all" =>
       mem["m1"] = Appended(prev.mem["m1"],
                            AttachedEntries(subject, StringifiedEntries(last.m)))
  /\ \A k \in ChainKeys : ReadNow(k) = ReadNow(Stringified(k))
  /\ last.op = "read" => ret = ReadNow(Stringified(last.k))

\* the part of C23 the code keeps: everything on the MemoryReporter itself,
\* and through the PrefixedReporter every report, every read, and every
\* report_all batch whose keys have different string forms
C23_StringFormKeysApart ==
  /\ last.op = "report" =>
       mem["m1"] = Appended(prev.mem["m1"],
                            <<[k |-> AttachedKey(subject, Stringified(last.k)), v |-> last.v]>>)
  /\ (/\ last.op = "report_all"
      /\ \/ subject = Mem1
         \/ \A i, j \in 1..Len(last.m) :
              i # j => PyStr(last.m[i].k) # PyStr(last.m[j].k)) =>
       mem["m1"] = Appended(prev.mem["m1"],
                            AttachedEntries(subject, StringifiedEntries(last.m)))
  /\ \A k \in ChainKeys : ReadNow(k) = ReadNow(Stringified(k))
  /\ last.op = "read" => ret = ReadNow(Stringified(last.k))

----------------------------------------------------------------------------
(* A MemoryReporter and the reader it handed out *)

LiveKeys == {KeyA, Key1}

\* reader = mem.reader()
LiveReader ==
  /\ held = NoReader
  /\ held' = MemoryReporterReader(subject)
  /\ Quiet([NoOp EXCEPT !.op = "reader", !.rep = subject])
  /\ UNCHANGED <<active, scopes, initial, bare, pinned, threadVars, subject, every,
                 stack, sub, managerVars>>

LiveReport ==
  \E k \in LiveKeys, v \in {1, 2} :
    /\ nops < MaxLiveOps
    /\ Commit(Report(subject, StateNow(<<>>), 0, k, v),
              [NoOp EXCEPT !.op = "report", !.rep = subject, !.k = k, !.v = v])
    /\ UNCHANGED <<hist, registryVars, managerVars>>

LiveReportAll ==
  \E m \in NumberedDicts(LiveKeys) :
    /\ nops < MaxLiveOps
    /\ Commit(ReportAll(subject, StateNow(<<>>), 1, m),
              [NoOp EXCEPT !.op = "report_all", !.rep = subject, !.step = 1, !.m = m])
    /\ UNCHANGED <<hist, registryVars, managerVars>>

\* mem.clear()
LiveClear ==
  /\ nops < MaxLiveOps
  /\ Commit([StateNow(<<>>) EXCEPT !.mem = MemoryClear(subject, mem).mem],
            [NoOp EXCEPT !.op = "clear", !.rep = subject])
  /\ subject' = MemoryClear(subject, mem).r
  /\ UNCHANGED <<hist, active, scopes, initial, bare, pinned, threadVars, held, every, stack, sub, managerVars>>

\* reader.read(k)
LiveRead ==
  \E k \in LiveKeys :
    /\ held # NoReader
    /\ last.op # "read"
    /\ CallRead(held, k)
    /\ UNCHANGED nops

InitLive ==
  /\ InitStores /\ InitRegistryIdle /\ InitManagerIdle
  /\ subject = Mem1

NextLive == LiveReader \/ LiveReport \/ LiveReportAll \/ LiveClear \/ LiveRead

SpecLive == InitLive /\ [][NextLive]_vars

\* the list the reporter holds now for str(k)
ListNow(k) == MemoryGet(mem[subject.id], k)

\* C24: the MemoryReader obtained from MemoryReporter.reader() is a live
\* view: after any report, report_all and clear calls made after the reader
\* was created, reader.read(k) is the reporter's current list for str(k): it
\* has every later write, and is [] for every key after clear() until the
\* key is reported again.
C24_LiveView ==
  held # NoReader =>
    /\ \A k \in LiveKeys : Read(held, mem, sql, k) = Returned(ListNow(k), <<>>)
    /\ last.op = "read" => ret = Returned(ListNow(last.k), <<>>)
    /\ last.op = "clear" => \A k \in LiveKeys : Read(held, mem, sql, k) = Returned(<<>>, <<>>)
    /\ last.op = "report" =>
         Read(held, mem, sql, last.k).list =
           Append(Read(held, prev.mem, sql, last.k).list, last.v)

\* C24's case: the reader is held, it could read a value under the key 1,
\* and the reporter has just been cleared: the reader now reads []
C24_Witness ==
  /\ held # NoReader
  /\ last.op = "clear"
  /\ Read(held, prev.mem, sql, Key1).list # <<>>
  /\ mem["m1"] = EmptyStore
  /\ Read(held, mem, sql, Key1) = Returned(<<>>, <<>>)

----------------------------------------------------------------------------
(* map_values and stepped over a logging lambda that writes to m1 *)

MapSubjects ==
  {MapValuesReporter(Probe("l1"), fn) : fn \in {"square_if_even", "succ"}}
    \cup {stepped_reporter(Probe("l1"), step_key) :
            step_key \in {NoneAtt, StrAtt(<<"t">>), StrAtt(<<"v", "a", "l", "u", "e">>)}}

MapKeys == {KeyA, Key1}

MapSteps == 0..MaxMapOps

MapReport ==
  \E step \in MapSteps, k \in MapKeys, v \in {2, 3} :
    /\ nops < MaxMapOps
    /\ CallReport(subject, step, k, v, <<>>)
    /\ hist' = Append(hist, [step |-> step, k |-> k, v |-> v])

MapReportAll ==
  \E step \in MapSteps, m \in NumberedDicts(MapKeys) :
    /\ nops < MaxMapOps
    /\ CallReportAll(subject, step, m, <<>>)
    /\ hist' = hist \o Entries(step, m)

\* mem.reader().read(k), mem the memory reporter at the bottom
MapRead ==
  \E k \in MapKeys :
    /\ last.op # "read"
    /\ CallRead(ReaderOf(Mem1), k)
    /\ UNCHANGED <<nops>>

InitMap ==
  /\ InitStores /\ InitRegistryIdle /\ InitManagerIdle
  /\ subject \in MapSubjects

NextMap == MapReport \/ MapReportAll \/ MapRead

SpecMap == InitMap /\ [][NextMap]_vars

\* fn(step, v) of the reporter under test, written out: the two functions
\* of the runs, and for stepped the dict with step_key and "value" (one
\* entry when step_key is "value" itself)
Forwarded(step, v) ==
  CASE subject.fn = "square_if_even" -> IF step % 2 = 0 THEN v * v ELSE v
    [] subject.fn = "succ" -> v + 1
    [] subject.fn = "_augment" ->
         IF subject.att.s = <<"v", "a", "l", "u", "e">>
         THEN <<[k |-> <<"v", "a", "l", "u", "e">>, v |-> v]>>
         ELSE <<[k |-> subject.att.s, v |-> step], [k |-> <<"v", "a", "l", "u", "e">>, v |-> v]>>

\* what was reported under the string form s so far, as forwarded
RECURSIVE ForwardedFor(_, _)
ForwardedFor(h, s) ==
  IF h = <<>> THEN <<>>
  ELSE (IF PyStr(h[1].k) = s THEN <<Forwarded(h[1].step, h[1].v)>> ELSE <<>>)
         \o ForwardedFor(Tail(h), s)

\* C25: a MapValuesReporter forwards every reported (step, k, v) to its
\* base as (step, k, fn(step, v)): same step, same key, one forwarded entry
\* per input entry, through report and through report_all; stepped(step_key)
\* is the instance whose fn(step, v) is {step_key: step, "value": v}, with
\* step_key "step" by default, so the values reported for a key are read
\* back as the list of those records in report order.
C25_MapForwards ==
  /\ last.op = "report" =>
       calls = <<[to |-> "l1", meth |-> "report", step |-> last.step,
                  m |-> <<[k |-> last.k, v |-> Forwarded(last.step, last.v)]>>]>>
  /\ last.op = "report_all" =>
       calls = <<[to |-> "l1", meth |-> "report_all", step |-> last.step,
                  m |-> [i \in 1..Len(last.m) |->
                           [k |-> last.m[i].k, v |-> Forwarded(last.step, last.m[i].v)]]]>>
  /\ \A k \in MapKeys :
       MemoryGet(mem["m1"], k) = ForwardedFor(hist, PyStr(k))
  /\ last.op = "read" => ret = Returned(ForwardedFor(hist, PyStr(last.k)), <<>>)

\* C25's case: through stepped() with the default step_key, a value was
\* reported under the key 1 at step 0 and another at step 1, and the reader
\* has read both records back in that order
C25_Witness ==
  /\ subject = stepped_reporter(Probe("l1"), NoneAtt)
  /\ last.op = "read"
  /\ last.k = Key1
  /\ Len(hist) = 2
  /\ hist[1].step = 0 /\ hist[2].step = 1
  /\ ret.list = <<<<[k |-> <<"s", "t", "e", "p">>, v |-> 0],
                    [k |-> <<"v", "a", "l", "u", "e">>, v |-> hist[1].v]>>,
                  <<[k |-> <<"s", "t", "e", "p">>, v |-> 1],
                    [k |-> <<"v", "a", "l", "u", "e">>, v |-> hist[2].v]>>>>

----------------------------------------------------------------------------
(* report_each_n over the memory reporter m1 *)

EachNs == (0 - 1)..MaxEvery

EachSteps == 0..(MaxEvery + 1)

\* answers for a predicate that keeps no state: never looked at
Unasked(n) == [i \in 1..n |-> FALSE]

EachReport ==
  \E step \in EachSteps, k \in MapKeys, v \in {2, 3} :
    /\ nops < MaxEachOps
    /\ CallReport(subject, step, k, v, Unasked(1))
    /\ hist' = Append(hist, [step |-> step, k |-> k, v |-> v])

EachReportAll ==
  \E step \in EachSteps, m \in NumberedDicts(MapKeys) :
    /\ nops < MaxEachOps
    /\ CallReportAll(subject, step, m, Unasked(2 * Len(m)))
    /\ hist' = hist \o Entries(step, m)

\* reporter.reader().read(k)
EachRead ==
  \E k \in MapKeys :
    /\ last.op # "read"
    /\ CallRead(ReaderOf(subject), k)
    /\ UNCHANGED <<nops>>

InitEachN ==
  /\ mem = [id \in MemIds |-> EmptyStore]
  /\ params = [id \in MemIds |-> <<>>]
  /\ sql = <<>>
  /\ calls = <<>>
  /\ last = NoOp
  /\ prev = [mem |-> [id \in MemIds |-> EmptyStore], params |-> [id \in MemIds |-> <<>>]]
  /\ ret = NoRet
  /\ hist = <<>>
  /\ held = NoReader
  /\ stack = <<>>
  /\ sub = NoSubscription
  /\ nops = 0
  /\ InitRegistryIdle /\ InitManagerIdle
  /\ every \in EachNs
  /\ subject = report_each_n(Mem1, every)

NextEachN == EachReport \/ EachReportAll \/ EachRead

SpecEachN == InitEachN /\ [][NextEachN]_vars

\* the values reported under the string form s at the steps that n lets through
RECURSIVE KeptFor(_, _, _)
KeptFor(h, s, n) ==
  IF h = <<>> THEN <<>>
  ELSE (IF PyStr(h[1].k) = s /\ (n <= 1 \/ h[1].step % n = 0) THEN <<h[1].v>> ELSE <<>>)
         \o KeptFor(Tail(h), s, n)

\* C26: report_each_n(n) with n > 1 forwards to the reporter exactly the
\* reports whose step is a multiple of n and drops the others; with n <= 1,
\* zero and negative n included, it returns the very reporter it was called
\* on, so every report goes through.
C26_ReportEachN ==
  /\ every <= 1 => subject = Mem1
  /\ \A k \in MapKeys : MemoryGet(mem["m1"], k) = KeptFor(hist, PyStr(k), every)
  /\ last.op = "read" => ret = Returned(KeptFor(hist, PyStr(last.k), every), <<>>)

\* C26's case: with n = 3, values were reported under the key a at step 3
\* and at step 4, and the reader gives back only the one of step 3
C26_Witness ==
  /\ every = 3
  /\ last.op = "read"
  /\ last.k = KeyA
  /\ Len(hist) = 2
  /\ hist[1].k = KeyA /\ hist[2].k = KeyA
  /\ hist[1].step = 3 /\ hist[2].step = 4
  /\ ret.list = <<hist[1].v>>

\* C26's other case: with n = -1 the reporter is m1 itself and a report at
\* step 1 has been stored
C26_WitnessSame ==
  /\ every = 0 - 1
  /\ subject = Mem1
  /\ Len(hist) = 1 /\ hist[1].step = 1
  /\ MemoryGet(mem["m1"], hist[1].k) = <<hist[1].v>>

----------------------------------------------------------------------------
(* A subclass of AbstractReporter that overrides neither report nor
   report_all, and one of AbstractReader that overrides neither read nor
   read_all. The default methods run one call at a time: a frame is
   [meth, step, m, i], m the entries (or the keys) the method was given and
   i the one whose call it has come to. *)

Frame(meth, step, m) == [meth |-> meth, step |-> step, m |-> m, i |-> 1]

Pending_overridden(f) == f.meth \in {"report_all", "read_all"} /\ f.i <= Len(f.m)
\* the method in frame f has a call left to make: report and read make one,
\* report_all and read_all one per entry, in order
Pending(f) == f.i <= Len(f.m)

\* the call the default method in frame f makes next:
\* report: self.report_all(step, {k: v}); report_all: self.report(step, k, v);
\* read: self.read_all([k]); read_all: self.read(k)
Callee(f) ==
  CASE f.meth = "report" -> Frame("report_all", f.step, f.m)
    [] f.meth = "report_all" -> Frame("report", f.step, <<f.m[f.i]>>)
    [] f.meth = "read" -> Frame("read_all", f.step, f.m)
    [] f.meth = "read_all" -> Frame("read", f.step, <<f.m[f.i]>>)

AbstractKeys == {KeyA, Key1}

\* what the default methods leave alone: they touch no store
untouched == <<mem, params, sql, calls, hist, active, scopes, initial, bare,
               pinned, threadVars, subject, held, every, sub, managerVars>>

\* the program calls one of the four methods
AbstractCall ==
  /\ stack = <<>>
  /\ nops < MaxAbstractOps
  /\ \/ \E step \in {0, 1}, k \in AbstractKeys, v \in {1, 2} :
          /\ stack' = <<Frame("report", step, <<[k |-> k, v |-> v]>>)>>
          /\ last' = [NoOp EXCEPT !.op = "report", !.step = step, !.k = k, !.v = v]
     \/ \E step \in {0, 1}, m \in NumberedDicts(AbstractKeys) :
          /\ stack' = <<Frame("report_all", step, m)>>
          /\ last' = [NoOp EXCEPT !.op = "report_all", !.step = step, !.m = m]
     \/ \E k \in AbstractKeys :
          /\ stack' = <<Frame("read", 0, <<k>>)>>
          /\ last' = [NoOp EXCEPT !.op = "read", !.k = k]
     \/ \E ks \in KeyLists(AbstractKeys, MaxDict) :
          /\ stack' = <<Frame("read_all", 0, ks)>>
          /\ last' = [NoOp EXCEPT !.op = "read_all", !.ks = ks]
  /\ ret' = NoRet
  /\ prev' = Before
  /\ nops' = nops + 1
  /\ UNCHANGED untouched

\* the innermost method makes its next call
AbstractEnter ==
  /\ stack # <<>>
  /\ Pending(stack[Len(stack)])
  /\ Len(stack) < RecursionLimit
  /\ stack' = Append(stack, Callee(stack[Len(stack)]))
  /\ UNCHANGED <<last, prev, ret, nops, untouched>>

\* the innermost method makes its next call and the interpreter has no frame
\* left: RecursionError, which no frame catches
AbstractOverflow ==
  /\ stack # <<>>
  /\ Pending(stack[Len(stack)])
  /\ Len(stack) >= RecursionLimit
  /\ stack' = <<>>
  /\ ret' = Raised("RecursionError")
  /\ UNCHANGED <<last, prev, nops, untouched>>

\* the innermost method has no call left and returns: its caller goes on to
\* its next entry, and the program gets None (or what read_all built) when
\* it was the outermost
AbstractReturn ==
  /\ stack # <<>>
  /\ ~Pending(stack[Len(stack)])
  /\ LET n == Len(stack)
     IN IF n = 1
        THEN /\ stack' = <<>>
             /\ ret' = [Returned(<<>>, <<>>) EXCEPT !.none = stack[1].meth \in {"report", "report_all"}]
        ELSE /\ stack' = [SubSeq(stack, 1, n - 1) EXCEPT ![n - 1].i = @ + 1]
             /\ UNCHANGED ret
  /\ UNCHANGED <<last, prev, nops, untouched>>

InitAbstract ==
  /\ InitStores /\ InitRegistryIdle /\ InitManagerIdle
  /\ InitNoSubject

NextAbstract == AbstractCall \/ AbstractEnter \/ AbstractOverflow \/ AbstractReturn

SpecAbstract == InitAbstract /\ [][NextAbstract]_vars

\* the last call is over and came back to the program without an exception
ReturnedNormally ==
  /\ last.op \in {"report", "report_all", "read", "read_all"}
  /\ stack = <<>>
  /\ ret.exc = "none"

\* the last call was handed nothing: report_all(step, {}) or read_all([])
EmptyBatch ==
  \/ last.op = "report_all" /\ last.m = <<>>
  \/ last.op = "read_all" /\ last.ks = <<>>

\* m1's dicts and the metrics table are as they were at the start
NothingWritten ==
  /\ mem = [id \in MemIds |-> EmptyStore]
  /\ params = [id \in MemIds |-> <<>>]
  /\ sql = <<>>

\* C27 as stated: on an object that overrides neither method, no call to
\* report, report_all, read or read_all ever returns normally, and no store
\* is written.
C27_NeverReturns == ~ReturnedNormally /\ NothingWritten

\* C27, amended: a call to report or read, or to report_all or read_all with
\* at least one entry, never returns normally: each default method calls the
\* other, no frame ever finishes, and the call ends in RecursionError when
\* the interpreter's limit is reached; report_all(step, {}) and read_all([])
\* return at once; no store is written in either case.
C27_NonEmptyNeverReturns ==
  /\ ReturnedNormally => EmptyBatch
  /\ (EmptyBatch /\ stack = <<>>) => ret.exc = "none"
  /\ \A i \in 1..Len(stack) :
       EmptyBatch \/ (Pending(stack[i]) /\ stack[i].m # <<>>)
  /\ \A i \in 1..(Len(stack) - 1) :
       stack[i + 1].meth # stack[i].meth
  /\ (stack = <<>> /\ last.op # "none" /\ ~EmptyBatch) => ret = Raised("RecursionError")
  /\ NothingWritten

\* C27's case: report_all was called with two entries and the call is over:
\* it raised RecursionError
C27_Witness ==
  /\ last.op = "report_all"
  /\ Len(last.m) = 2
  /\ stack = <<>>
  /\ ret = Raised("RecursionError")

\* C27's other case: read(k) is RecursionLimit frames deep, read and
\* read_all in turn
C27_WitnessRead ==
  /\ last.op = "read"
  /\ Len(stack) = RecursionLimit
  /\ stack[1].meth = "read" /\ stack[2].meth = "read_all" /\ stack[3].meth = "read"

----------------------------------------------------------------------------
(* measure and perform_specified_measurements with a measurement function
   that raises: c is lambda state: 100 // state['Value3'], and the caller's
   dynamic_state at step 0 sets Value3 to 0 *)

KeyC == StrKey(<<"c">>)

FailNames == {KeyA, KeyB, KeyC}

FailFunctionOf(name) ==
  IF name = KeyC THEN "inverse3" ELSE FunctionOf(name)

\* what add_measurement calls with intervals of 1 and 2 leave registered
FailRegistered ==
  {d \in DictsOf(FailNames, {MeasurementSpec(i, "", f) : i \in {1, 2},
                                  f \in {"zero", "sum13", "inverse3"}}, 2) :
     \A i \in 1..Len(d) : d[i].v.function = FailFunctionOf(d[i].k)}

FailNameLists == {<<KeyC>>, <<KeyA, KeyC>>, <<KeyA, KeyB>>, <<KeyB, KeyC, KeyA>>}

\* manager.measure(step, dynamic_state, measurement_list)
FailMeasureListed ==
  /\ mgr.class = "experimental"
  /\ mgr.step < MaxFailSteps
  /\ \E dynamic_state \in DynamicStates(mgr.step), measurement_list \in FailNameLists :
       ManagerCall(measure(mgr, StateNow(<<>>), mgr.step, dynamic_state, measurement_list),
                   [NoOp EXCEPT !.op = "measure", !.m = dynamic_state, !.forced = TRUE,
                                !.ks = measurement_list])

\* manager.measure(step, dynamic_state)
FailMeasure ==
  /\ mgr.class = "experimental"
  /\ mgr.step < MaxFailSteps
  /\ \E dynamic_state \in DynamicStates(mgr.step) :
       ManagerCall(measure(mgr, StateNow(<<>>), mgr.step, dynamic_state,
                           triggered(mgr.measurements, mgr.step)),
                   [NoOp EXCEPT !.op = "measure", !.m = dynamic_state])

\* manager.perform_specified_measurements(step, dynamic_state, measurement_list)
FailPerformSpecified ==
  /\ mgr.class = "manager"
  /\ mgr.step < MaxFailSteps
  /\ \E dynamic_state \in DynamicStates(mgr.step), measurement_list \in FailNameLists :
       ManagerCall(perform_specified_measurements(mgr, StateNow(<<>>), mgr.step,
                                                  dynamic_state, measurement_list),
                   [NoOp EXCEPT !.op = "perform", !.m = dynamic_state, !.forced = TRUE,
                                !.ks = measurement_list])

InitMeasureFail ==
  /\ InitStores /\ InitNoSubject /\ InitRegistryIdle
  /\ mgr \in [class : {"manager", "experimental"}, static_state : {StaticState},
              measurements : FailRegistered, step : {0}]
  /\ reports = <<>>

NextMeasureFail == FailMeasureListed \/ FailMeasure \/ FailPerformSpecified

SpecMeasureFail == InitMeasureFail /\ [][NextMeasureFail]_vars

\* the names the last call selected: the list it was given, or the names due
Selected == IF last.forced THEN last.ks ELSE DueAt(last.was, last.step)

\* state['Value3'] as the last call's measurement functions saw it
Value3Seen == IF last.m = <<>> THEN 100 ELSE last.m[1].v

\* the last call selected a name that is not registered, or c with Value3 = 0
Failing ==
  \E i \in 1..Len(Selected) :
    \/ ~DictHas(last.was, Selected[i])
    \/ Selected[i] = KeyC /\ Value3Seen = 0

\* C28: measure and perform_specified_measurements report all or nothing:
\* when a selected measurement function raises or a listed name is not
\* registered the call raises, the reporter gets no call and no store
\* changes, whatever was computed before; otherwise the only call is one
\* report_all at the call's step with every selected name; the registered
\* measurements are the same after the call in both cases.
C28_AllOrNothing ==
  last.op \in {"measure", "perform"} =>
    /\ mgr.measurements = last.was
    /\ Failing =>
         /\ ret.exc \in {"KeyError", "ZeroDivisionError"}
         /\ calls = <<>>
         /\ mem = prev.mem
    /\ ~Failing =>
         /\ ret.exc = "none"
         /\ Len(calls) <= 1
         /\ Len(calls) = 1 =>
              /\ calls[1].meth = "report_all" /\ calls[1].step = last.step
              /\ DictKeys(calls[1].m) = Selected
         /\ (calls = <<>>) => (Selected = <<>> /\ mem = prev.mem)

\* C28's case: a and c are registered, both were listed at step 0 with
\* Value3 = 0: a was computed, c raised, and nothing was reported
C28_Witness ==
  /\ last.op \in {"measure", "perform"}
  /\ last.ks = <<KeyA, KeyC>>
  /\ DictHas(last.was, KeyA) /\ DictHas(last.was, KeyC)
  /\ last.step = 0 /\ Value3Seen = 0
  /\ ret.exc = "ZeroDivisionError"
  /\ calls = <<>>

----------------------------------------------------------------------------
(* report_param and report_params through the combinators *)

\* the wrappers that define report_param and report_params, over m1
ParamWrappers ==
  {PrefixedReporter(Mem1, StrAtt(<<"p">>)), SuffixedReporter(Mem1, StrAtt(<<"s">>)),
   FilterValuesReporter(Mem1, "step_even", <<>>),
   FilterValuesReporter(Mem1, "step_even", <<Mem2>>),
   MapValuesReporter(Mem1, "succ"), ThunkReporter(Mem1)}

\* MultiReporters: m1.plus(m2), one over a single wrapper, and a wrapper
\* over a MultiReporter
ParamMultis ==
  {MultiReporter(<<Mem1, Mem2>>), MultiReporter(<<PrefixedReporter(Mem1, StrAtt(<<"p">>))>>),
   PrefixedReporter(MultiReporter(<<Mem1, Mem2>>), StrAtt(<<"p">>))}

ParamKeys == {KeyA, KeyB}

ParamReport ==
  \E k \in ParamKeys, v \in {1, 2} :
    /\ nops < MaxParamOps
    /\ Commit(ReportParam(subject, StateNow(<<>>), k, v),
              [NoOp EXCEPT !.op = "report_param", !.k = k, !.v = v])
    /\ UNCHANGED <<hist, registryVars, managerVars>>

ParamReports ==
  \E m \in NumberedDicts(ParamKeys) :
    /\ nops < MaxParamOps
    /\ Commit(ReportParams(subject, StateNow(<<>>), m),
              [NoOp EXCEPT !.op = "report_params", !.m = m])
    /\ UNCHANGED <<hist, registryVars, managerVars>>

InitParams ==
  /\ InitStores /\ InitRegistryIdle /\ InitManagerIdle
  /\ subject \in ParamWrappers \cup ParamMultis

NextParams == ParamReport \/ ParamReports

SpecParams == InitParams /\ [][NextParams]_vars

C29_WitnessForwarded ==
  /\ subject = PrefixedReporter(Mem1, StrAtt(<<"p">>))
  /\ last.op = "report_params" /\ Len(last.m) = 2
  /\ params["m1"] = last.m

----------------------------------------------------------------------------
(* uv/resources/mlflow_subscriber.py: the handler log_metrics, run by the
   subscription for every message it delivers. A message is [id, data]; the
   subscription delivers a message again until it is acknowledged. *)

\* what the bytes of a message can be: a batch as MLFlowPubsubReporter
\* publishes it, bytes that are not utf-8, text that is not JSON, JSON
\* without 'run_id', and a metric that Metric(**x) does not accept
DataKinds == {"batch", "not_utf8", "not_json", "no_run_id", "not_metric"}

\* json.loads(msg.data.decode('utf-8')), d['run_id'],
\* [Metric(**x) for x in d['metrics']]: the exception of the first that fails
Decoded(data) ==
  CASE data = "not_utf8" -> "UnicodeDecodeError"
    [] data = "not_json" -> "JSONDecodeError"
    [] data = "no_run_id" -> "KeyError"
    [] data = "not_metric" -> "TypeError"
    [] data = "batch" -> "none"

\* log_metrics(None, None): the test's call with no message and no client
NoMessage == [id |-> 0, data |-> "None"]

\* a run of the handler: what it called in order, the exception it caught
\* and logged, and the exception it let through
Run(msg, trace, caught) == [msg |-> msg, trace |-> trace, caught |-> caught, raised |-> "none"]

log_metrics_ack_last(client, msg, ack, s) ==
  IF msg = NoMessage
  THEN [s EXCEPT !.log = Append(@, Run(msg, <<>>, "AttributeError"))]
  ELSE IF Decoded(msg.data) # "none"
  THEN [s EXCEPT !.log = Append(@, Run(msg, <<>>, Decoded(msg.data)))]
  ELSE IF client # "up"
  THEN [s EXCEPT !.log = Append(@, Run(msg, <<"log_batch">>, "MlflowException"))]
  ELSE IF ack # "ok"
  THEN [s EXCEPT !.written = Append(@, msg.id),
                 !.log = Append(@, Run(msg, <<"log_batch", "ack">>, ack))]
  ELSE [s EXCEPT !.pending = @ \ {msg}, !.acked = @ \cup {msg.id},
                 !.written = Append(@, msg.id),
                 !.log = Append(@, Run(msg, <<"log_batch", "ack">>, "none"))]
\* log_metrics(client, msg, verbose): try: msg.ack(); decode; build the
\* metrics; client.log_batch(...); except Exception: log it. ack is what
\* msg.ack() does this time, client whether the backend takes the batch.
log_metrics(client, msg, ack, s) ==
  IF msg = NoMessage
  THEN [s EXCEPT !.log = Append(@, Run(msg, <<>>, "AttributeError"))]
  ELSE IF ack # "ok"
  THEN [s EXCEPT !.log = Append(@, Run(msg, <<"ack">>, ack))]
  ELSE LET s1 == [s EXCEPT !.pending = @ \ {msg}, !.acked = @ \cup {msg.id}]
       IN IF Decoded(msg.data) # "none"
          THEN [s1 EXCEPT !.log = Append(@, Run(msg, <<"ack">>, Decoded(msg.data)))]
          ELSE IF client = "None"
          THEN [s1 EXCEPT !.log = Append(@, Run(msg, <<"ack">>, "AttributeError"))]
          ELSE IF client # "up"
          THEN [s1 EXCEPT !.log = Append(@, Run(msg, <<"ack", "log_batch">>, "MlflowException"))]
          ELSE [s1 EXCEPT !.written = Append(@, msg.id),
                          !.log = Append(@, Run(msg, <<"ack", "log_batch">>, "none"))]

\* everything but the subscription
offline == <<mem, params, sql, calls, hist, active, scopes, initial, bare,
             pinned, threadVars, subject, held, every, stack, managerVars>>

\* a publisher puts a message on the topic
Publish ==
  /\ sub.next <= MaxMessages
  /\ \E data \in DataKinds :
       sub' = [sub EXCEPT !.pending = @ \cup {[id |-> sub.next, data |-> data]},
                          !.next = @ + 1]
  /\ UNCHANGED <<last, prev, ret, nops, offline>>

\* the handler's run is over: what its caller sees
Handled(s) ==
  /\ sub' = s
  /\ last' = [NoOp EXCEPT !.op = "log_metrics"]
  /\ ret' = IF s.log[Len(s.log)].raised = "none" THEN NoRet
            ELSE Raised(s.log[Len(s.log)].raised)
  /\ prev' = Before
  /\ nops' = nops + 1
  /\ UNCHANGED offline

\* the subscription delivers a message it holds: callback=lambda msg:
\* log_metrics(client, msg, args.verbose)
Deliver ==
  /\ nops < MaxDeliveries
  /\ \E msg \in sub.pending, client \in {"up", "down"}, ack \in {"ok", "RetryError"} :
       Handled(log_metrics(client, msg, ack, sub))

\* log_metrics(None, None, True)
LogNone ==
  /\ nops < MaxDeliveries
  /\ Handled(log_metrics("None", NoMessage, "ok", sub))

InitSubscriber ==
  /\ InitStores /\ InitNoSubject /\ InitRegistryIdle /\ InitManagerIdle

NextSubscriber == Publish \/ Deliver \/ LogNone

SpecSubscriber == InitSubscriber /\ [][NextSubscriber]_vars

\* the runs of the handler on message id, oldest first
RunsOn(id) == SelectSeq(sub.log, LAMBDA r : r.msg.id = id)

\* how many batches the backend holds for message id
WrittenFor(id) == Cardinality({i \in DOMAIN sub.written : sub.written[i] = id})

\* C30: log_metrics never raises to its caller: what goes wrong while
\* acknowledging, decoding or logging is caught and logged. It calls
\* msg.ack() before client.log_batch, so a message whose decoding or logging
\* failed is acknowledged all the same: no batch is written for it and the
\* subscription never delivers it again; no message is written twice.
C30_AckBeforeLog ==
  /\ last.op = "log_metrics" => ret.exc = "none"
  /\ \A i \in DOMAIN sub.log :
       LET r == sub.log[i]
       IN /\ r.raised = "none"
          /\ \A j \in DOMAIN r.trace :
               r.trace[j] = "log_batch" => (j > 1 /\ r.trace[j - 1] = "ack")
          /\ (r.caught \in {"UnicodeDecodeError", "JSONDecodeError", "KeyError",
                             "TypeError", "MlflowException"}) =>
               /\ r.msg.id \in sub.acked
               /\ r.msg \notin sub.pending
               /\ WrittenFor(r.msg.id) = 0
               /\ \A j \in DOMAIN sub.log : j > i => sub.log[j].msg.id # r.msg.id
  /\ \A id \in 1..MaxMessages : WrittenFor(id) <= 1

\* C30's case: a message that is not JSON was delivered, then a batch was
\* delivered while the backend was down: both are acknowledged, neither is
\* held by the subscription, nothing is written
C30_Witness ==
  /\ Len(sub.log) = 2
  /\ sub.log[1].caught = "JSONDecodeError"
  /\ sub.log[2].caught = "MlflowException"
  /\ sub.log[2].msg.data = "batch"
  /\ sub.acked = {1, 2}
  /\ sub.pending = {}
  /\ sub.written = <<>>

====
